---- MODULE Spec2Model ----
(***************************************************************************)
(* Model of the p2panda-rs document materialisation core:                  *)
(*   DocumentBuilder::build and Document::resolve_view (document.rs),      *)
(*   on top of Graph and DocumentView, whose sources are not part of the   *)
(*   tree and are modelled from the specification's sections 4.3 and 4.4.  *)
(*                                                                         *)
(* Hashes are modelled as the integers 1..NumIds; the integer order stands *)
(* for the byte-lexicographic order of the fixed-length hex strings.       *)
(* An Option<T> is a sequence of length at most one: <<>> is None and      *)
(* <<x>> is Some(x).                                                       *)
(***************************************************************************)
EXTENDS Integers, Sequences, FiniteSets, TLC

(***************************************************************************)
(* Bounds of the model.                                                    *)
(***************************************************************************)
NumIds == 4
MaxPrev == 2
MaxForeign == 1
NumKeys == 5
MaxLinks == 4

Ids == 1..NumIds
FieldNames == {"a", "b"}
DocSchema == "s1"
ForeignSchema == "s2"

None == <<>>
Some(x) == <<x>>
IsSome(o) == Len(o) > 0
Unwrap(o) == o[1]

Range(s) == {s[i] : i \in 1..Len(s)}

(***************************************************************************)
(* AsOperation accessors of OperationWithMeta.                             *)
(***************************************************************************)
is_create(op) == op.action = "create"
is_update(op) == op.action = "update"
is_delete(op) == op.action = "delete"
has_fields(op) == IsSome(op.fields)
has_previous_operations(op) == IsSome(op.previous_operations)

(***************************************************************************)
(* Graph (specification section 4.3).  A graph is a record of its nodes,   *)
(* a function from key to payload, and its links, a set of pairs           *)
(* <<from, to>>.                                                           *)
(***************************************************************************)
GraphNew == [nodes |-> <<>>, links |-> {}]

\* Faulty variant of add_node: the payload of a key already in the graph is
\* kept.
add_node_keeping(g, key, payload) ==
    [g EXCEPT !.nodes = [k \in (DOMAIN g.nodes) \cup {key} |->
                            IF k \in DOMAIN g.nodes THEN g.nodes[k] ELSE payload]]

\* add_node(key, payload): inserts or replaces a node.
add_node(g, key, payload) ==
    [g EXCEPT !.nodes = [k \in (DOMAIN g.nodes) \cup {key} |->
                            IF k = key THEN payload ELSE g.nodes[k]]]

\* add_link(from, to): inserts an edge; false if either endpoint is missing.
add_link(g, from, to) ==
    IF from \in DOMAIN g.nodes /\ to \in DOMAIN g.nodes
    THEN [success |-> TRUE, graph |-> [g EXCEPT !.links = @ \cup {<<from, to>>}]]
    ELSE [success |-> FALSE, graph |-> g]

InDegree(g, k) == Cardinality({l \in g.links : l[2] = k})
OutDegree(g, k) == Cardinality({l \in g.links : l[1] = k})
\* Faulty variant of Roots: a node without any link is not counted.
RootsIgnoringIsolated(g) ==
    {k \in DOMAIN g.nodes : InDegree(g, k) = 0 /\ OutDegree(g, k) > 0}

\* The roots of the graph: the nodes with in-degree 0.
Roots(g) == {k \in DOMAIN g.nodes : InDegree(g, k) = 0}
Successors(g, k) == {l[2] : l \in {m \in g.links : m[1] = k}}

MinKey(S) == CHOOSE k \in S : \A j \in S : k <= j

\* The ascending sequence of the keys of S.
RECURSIVE SortedKeys(_)
SortedKeys(S) ==
    IF S = {} THEN <<>>
    ELSE LET k == MinKey(S) IN <<k>> \o SortedKeys(S \ {k})

\* Faulty variant of PickReady: of several ready keys the second smallest is
\* emitted next.
PickSecondReady(ready) ==
    IF Cardinality(ready) = 1 THEN MinKey(ready) ELSE MinKey(ready \ {MinKey(ready)})

\* Faulty variant of PickReady: the largest ready key is emitted next.
PickLargestReady(ready) == CHOOSE k \in ready : \A j \in ready : j <= k

\* The tie-breaker of the sort: the ready key that is emitted next.
PickReady(ready) == MinKey(ready)

\* Step 3 of the sort: emit the picked ready key, decrement the in-degree of
\* its successors, until the ready set is empty.
RECURSIVE Kahn(_, _, _)
Kahn(g, indeg, emitted) ==
    LET ready == {k \in DOMAIN g.nodes : indeg[k] = 0 /\ k \notin Range(emitted)}
    IN  IF ready = {} THEN emitted
        ELSE LET k == PickReady(ready)
                 succ == Successors(g, k)
             IN  Kahn(g,
                      [j \in DOMAIN indeg |-> IF j \in succ THEN indeg[j] - 1 ELSE indeg[j]],
                      Append(emitted, k))

\* The tips of the graph: the keys with out-degree 0, in ascending order.
GraphTips(g) == SortedKeys({k \in DOMAIN g.nodes : OutDegree(g, k) = 0})

\* Faulty variant of sort: the nodes left over by the loop are not looked at.
sort_emitted_only(g) ==
    IF Cardinality(Roots(g)) > 1
    THEN [ok |-> FALSE, error |-> [kind |-> "UnconnectedNode", id |-> 0]]
    ELSE LET emitted == Kahn(g, [k \in DOMAIN g.nodes |-> InDegree(g, k)], <<>>)
             tips == GraphTips(g)
         IN  [ok |-> TRUE,
              sorted |-> [i \in 1..Len(emitted) |-> g.nodes[emitted[i]]],
              current_graph_tips |-> [i \in 1..Len(tips) |-> g.nodes[tips[i]]]]

\* Faulty variant of sort: the number of roots is not looked at.
sort_without_root_check(g) ==
    LET emitted == Kahn(g, [k \in DOMAIN g.nodes |-> InDegree(g, k)], <<>>)
    IN  IF Len(emitted) # Cardinality(DOMAIN g.nodes)
        THEN [ok |-> FALSE, error |-> [kind |-> "CycleDetected", id |-> 0]]
        ELSE LET tips == GraphTips(g)
             IN  [ok |-> TRUE,
                  sorted |-> [i \in 1..Len(emitted) |-> g.nodes[emitted[i]]],
                  current_graph_tips |-> [i \in 1..Len(tips) |-> g.nodes[tips[i]]]]

\* sort(): UnconnectedNode with two or more roots, CycleDetected when nodes
\* remain after the last emission, else the emitted sequence and the tips.
sort(g) ==
    IF Cardinality(Roots(g)) > 1
    THEN [ok |-> FALSE, error |-> [kind |-> "UnconnectedNode", id |-> 0]]
    ELSE LET emitted == Kahn(g, [k \in DOMAIN g.nodes |-> InDegree(g, k)], <<>>)
         IN  IF Len(emitted) # Cardinality(DOMAIN g.nodes)
             THEN [ok |-> FALSE, error |-> [kind |-> "CycleDetected", id |-> 0]]
             ELSE LET tips == GraphTips(g)
                  IN  [ok |-> TRUE,
                       sorted |-> [i \in 1..Len(emitted) |-> g.nodes[emitted[i]]],
                       current_graph_tips |-> [i \in 1..Len(tips) |-> g.nodes[tips[i]]]]

(***************************************************************************)
(* DocumentView (specification section 4.4): a function from field name to *)
(* value.                                                                  *)
(***************************************************************************)
\* try_from(create_op): the view initialised from a CREATE's field set.
DocumentViewTryFrom(op) ==
    IF is_create(op) /\ has_fields(op)
    THEN [ok |-> TRUE, view |-> Unwrap(op.fields)]
    ELSE [ok |-> FALSE, error |-> [kind |-> "NotCreateOperation", id |-> 0]]

\* apply_update(op): an UPDATE overlays each of its fields; a DELETE leaves
\* the view untouched.
apply_update(view, op) ==
    IF is_update(op) /\ has_fields(op)
    THEN LET f == Unwrap(op.fields)
         IN  [n \in (DOMAIN view) \cup (DOMAIN f) |->
                 IF n \in DOMAIN f THEN f[n] ELSE view[n]]
    ELSE view

\* Faulty variant of ApplyAll: the loop stops one operation early.
RECURSIVE ApplyAllButLast(_, _, _)
ApplyAllButLast(view, sorted, i) ==
    IF i >= Len(sorted) THEN view
    ELSE ApplyAllButLast(apply_update(view, sorted[i]), sorted, i + 1)

\* Faulty variant of ApplyAll: the loop ends at the first DELETE.
RECURSIVE ApplyAllUntilDelete(_, _, _)
ApplyAllUntilDelete(view, sorted, i) ==
    IF i > Len(sorted) \/ is_delete(sorted[i]) THEN view
    ELSE ApplyAllUntilDelete(apply_update(view, sorted[i]), sorted, i + 1)

\* Faulty variant of ApplyAll: a DELETE empties the view.
RECURSIVE ApplyAllClearing(_, _, _)
ApplyAllClearing(view, sorted, i) ==
    IF i > Len(sorted) THEN view
    ELSE ApplyAllClearing(IF is_delete(sorted[i]) THEN <<>>
                          ELSE apply_update(view, sorted[i]),
                          sorted, i + 1)

\* operations_iter.try_for_each(|op| document_view.apply_update(op))
RECURSIVE ApplyAll(_, _, _)
ApplyAll(view, sorted, i) ==
    IF i > Len(sorted) THEN view
    ELSE ApplyAll(apply_update(view, sorted[i]), sorted, i + 1)

(***************************************************************************)
(* Document::resolve_view (document.rs).                                   *)
(***************************************************************************)
Err(kind, id) == [ok |-> FALSE, error |-> [kind |-> kind, id |-> id]]

\* for operation in operations { graph.add_node(operation_id, operation) }
RECURSIVE AddNodes(_, _, _)
AddNodes(g, operations, i) ==
    IF i > Len(operations) THEN g
    ELSE AddNodes(add_node(g, operations[i].operation_id, operations[i]),
                  operations, i + 1)

\* Faulty variant of MetaDeleted: only the last operation of the loop counts.
MetaDeletedByLast(operations) ==
    Len(operations) > 0 /\ is_delete(operations[Len(operations)])

\* meta.deleted: set by the same loop when an operation is a DELETE.
MetaDeleted(operations) == \E i \in 1..Len(operations) : is_delete(operations[i])

\* Faulty variant of MetaEdited: the comparison is with 2 instead of 1.
MetaEditedAboveTwo(operations) == Len(operations) > 2

\* meta.edited: if operations.len() > 1
MetaEdited(operations) == Len(operations) > 1

\* Faulty variant of AddLinks: the error carries the missing hash instead of the id
\* of the operation that names it.
RECURSIVE AddLinksReportingPrevious(_, _, _, _)
AddLinksReportingPrevious(g, operations, i, j) ==
    IF i > Len(operations) THEN [ok |-> TRUE, graph |-> g]
    ELSE LET operation == operations[i]
         IN  IF ~has_previous_operations(operation)
                \/ j > Len(Unwrap(operation.previous_operations))
             THEN AddLinksReportingPrevious(g, operations, i + 1, 1)
             ELSE LET previous == Unwrap(operation.previous_operations)[j]
                      r == add_link(g, previous, operation.operation_id)
                  IN  IF ~r.success
                      THEN Err("InvalidOperationLink", previous)
                      ELSE AddLinksReportingPrevious(r.graph, operations, i, j + 1)

\* Faulty variant of AddLinks: only the first hash of previous_operations is
\* linked.
RECURSIVE AddLinksFirstPrevious(_, _, _, _)
AddLinksFirstPrevious(g, operations, i, j) ==
    IF i > Len(operations) THEN [ok |-> TRUE, graph |-> g]
    ELSE LET operation == operations[i]
         IN  IF ~has_previous_operations(operation)
                \/ j > Len(Unwrap(operation.previous_operations))
                \/ j > 1
             THEN AddLinksFirstPrevious(g, operations, i + 1, 1)
             ELSE LET previous == Unwrap(operation.previous_operations)[j]
                      r == add_link(g, previous, operation.operation_id)
                  IN  IF ~r.success
                      THEN Err("InvalidOperationLink", operation.operation_id)
                      ELSE AddLinksFirstPrevious(r.graph, operations, i, j + 1)

\* Faulty variant of AddLinks: the value add_link returns is not looked at.
RECURSIVE AddLinksIgnoringResult(_, _, _, _)
AddLinksIgnoringResult(g, operations, i, j) ==
    IF i > Len(operations) THEN [ok |-> TRUE, graph |-> g]
    ELSE LET operation == operations[i]
         IN  IF ~has_previous_operations(operation)
                \/ j > Len(Unwrap(operation.previous_operations))
             THEN AddLinksIgnoringResult(g, operations, i + 1, 1)
             ELSE LET previous == Unwrap(operation.previous_operations)[j]
                      r == add_link(g, previous, operation.operation_id)
                  IN  AddLinksIgnoringResult(r.graph, operations, i, j + 1)

\* for operation in operations { for previous in previous_operations {
\*     add_link(previous, operation_id) or return InvalidOperationLink } }
\* i is the index of the operation, j the index into its previous_operations.
RECURSIVE AddLinks(_, _, _, _)
AddLinks(g, operations, i, j) ==
    IF i > Len(operations) THEN [ok |-> TRUE, graph |-> g]
    ELSE LET operation == operations[i]
         IN  IF ~has_previous_operations(operation)
                \/ j > Len(Unwrap(operation.previous_operations))
             THEN AddLinks(g, operations, i + 1, 1)
             ELSE LET previous == Unwrap(operation.previous_operations)[j]
                      r == add_link(g, previous, operation.operation_id)
                  IN  IF ~r.success
                      THEN Err("InvalidOperationLink", operation.operation_id)
                      ELSE AddLinks(r.graph, operations, i, j + 1)

\* Faulty variant of meta_operations: the list stays as the builder passed it.
meta_operations_unsorted(initial, sorted) == initial

\* meta.operations: the builder's operations (DocumentMeta { operations:
\* self.operations(), .. }), overwritten by sorted_graph_data.sorted().
meta_operations(initial, sorted) == sorted

\* Faulty variant of meta_current_graph_tips: only the first tip is recorded.
meta_first_graph_tip(tips) ==
    IF Len(tips) = 0 THEN <<>> ELSE <<tips[1].operation_id>>

\* Faulty variant of meta_current_graph_tips: the tips are collected from
\* the last to the first.
meta_graph_tips_reversed(tips) ==
    [i \in 1..Len(tips) |-> tips[Len(tips) + 1 - i].operation_id]

\* meta.current_graph_tips: the operation ids of the sorted graph's tips.
meta_current_graph_tips(tips) == [i \in 1..Len(tips) |-> tips[i].operation_id]

resolve_view(operations) ==
    LET nodes == AddNodes(GraphNew, operations, 1)
        linked == AddLinks(nodes, operations, 1, 1)
    IN  IF ~linked.ok THEN linked
        ELSE LET sorted_graph_data == sort(linked.graph)
             IN  IF ~sorted_graph_data.ok THEN sorted_graph_data
                 ELSE LET first == DocumentViewTryFrom(sorted_graph_data.sorted[1])
                      IN  IF ~first.ok THEN first
                          ELSE [ok |-> TRUE,
                                view |-> ApplyAll(first.view, sorted_graph_data.sorted, 2),
                                meta |-> [deleted |-> MetaDeleted(operations),
                                          edited |-> MetaEdited(operations),
                                          operations |->
                                              meta_operations(operations, sorted_graph_data.sorted),
                                          current_graph_tips |->
                                              meta_current_graph_tips(
                                                  sorted_graph_data.current_graph_tips)]]

(***************************************************************************)
(* DocumentBuilder::build (document.rs).                                   *)
(***************************************************************************)
\* The CREATE operations of operations[i..], in their order.
RECURSIVE FilterCreate(_, _)
FilterCreate(operations, i) ==
    IF i > Len(operations) THEN <<>>
    ELSE (IF is_create(operations[i]) THEN <<operations[i]>> ELSE <<>>)
         \o FilterCreate(operations, i + 1)

\* Faulty variant of collect_create_operation: the search stops at the first CREATE.
find_create_operation(operations) ==
    LET c == FilterCreate(operations, 1) IN IF Len(c) = 0 THEN c ELSE <<c[1]>>

\* self.operations().into_iter().filter(|op| op.is_create()).collect()
collect_create_operation(operations) == FilterCreate(operations, 1)

\* Faulty variant of create_operation: the first operation is taken for the CREATE.
first_operation(operations) == operations[1]

\* collect_create_operation.pop().unwrap(): the operation the document takes
\* its id, author and schema from.
create_operation(operations) ==
    LET c == collect_create_operation(operations) IN c[Len(c)]

\* Faulty variant of schema_error: all() in the place of any().
schema_error_all(operations, schema) ==
    \A i \in 1..Len(operations) : operations[i].schema # schema

\* self.operations().iter().any(|operation| operation.schema() != schema)
schema_error(operations, schema) ==
    \E i \in 1..Len(operations) : operations[i].schema # schema

\* Faulty variant of build: the schemas are compared, with that of the first
\* operation, before the CREATE operations are counted.
build_schema_first(operations) ==
    IF Len(operations) > 0 /\ schema_error(operations, operations[1].schema)
    THEN Err("OperationSchemaNotMatching", 0)
    ELSE LET n == Len(collect_create_operation(operations))
         IN  IF n = 0 THEN Err("NoCreateOperation", 0)
             ELSE IF n > 1 THEN Err("MoreThanOneCreateOperation", 0)
             ELSE LET create == create_operation(operations)
                      resolved == resolve_view(operations)
                  IN  IF ~resolved.ok THEN resolved
                      ELSE [ok |-> TRUE,
                            document |-> [id |-> create.operation_id,
                                          schema |-> create.schema,
                                          author |-> create.public_key,
                                          view |-> resolved.view,
                                          meta |-> resolved.meta]]

build(operations) ==
    LET n == Len(collect_create_operation(operations))
    IN  IF n = 0 THEN Err("NoCreateOperation", 0)
        ELSE IF n > 1 THEN Err("MoreThanOneCreateOperation", 0)
        ELSE LET create == create_operation(operations)
             IN  IF schema_error(operations, create.schema)
                 THEN Err("OperationSchemaNotMatching", 0)
                 ELSE LET resolved == resolve_view(operations)
                      IN  IF ~resolved.ok THEN resolved
                          ELSE [ok |-> TRUE,
                                document |-> [id |-> create.operation_id,
                                              schema |-> create.schema,
                                              author |-> create.public_key,
                                              view |-> resolved.view,
                                              meta |-> resolved.meta]]

(***************************************************************************)
(* The inputs of the model.  An operation id is a content address, so an   *)
(* id fixes its operation: the signer and the field names are drawn per id *)
(* and every field of operation i carries the value i.  The operations are *)
(* legal operations (Validate for Operation): a CREATE has fields and no   *)
(* previous_operations, an UPDATE has both, a DELETE has no fields.        *)
(***************************************************************************)
SignerOf(id) == IF id % 2 = 1 THEN "panda" ELSE "penguin"

FieldNamesOf(id) ==
    IF id % 3 = 1 THEN {"a", "b"} ELSE IF id % 3 = 2 THEN {"a"} ELSE {"b"}

FieldsOf(id) == [n \in FieldNamesOf(id) |-> id]

\* The ascending lists of at most MaxPrev ids.
PrevLists == {SortedKeys(P) : P \in {Q \in SUBSET Ids : Cardinality(Q) <= MaxPrev}}

Shapes == {[action |-> "create", previous_operations |-> None]}
          \cup {[action |-> a, previous_operations |-> Some(p)] :
                   a \in {"update", "delete"}, p \in PrevLists}

OperationWithMeta(id, shape, schema) ==
    [operation_id |-> id,
     public_key |-> SignerOf(id),
     schema |-> schema,
     action |-> shape.action,
     previous_operations |-> shape.previous_operations,
     fields |-> IF shape.action = "delete" THEN None ELSE Some(FieldsOf(id))]

\* No operation names its own id: the id is the hash of the operation.
NoSelfLink(id, shape) ==
    IsSome(shape.previous_operations)
        => id \notin Range(Unwrap(shape.previous_operations))

(***************************************************************************)
(* State: a DocumentBuilder and the result of its last build().            *)
(***************************************************************************)
\* graph and sorted_graph are a stand-alone Graph and the result of its last
\* sort(); the builder leaves them alone.
VARIABLES operations, result, graph, sorted_graph

\* A stand-alone OperationFields, the last call made on it, and the value last
\* written with success under each name; the encoding of the Operation at
\* hand; a CddlGenerator.
VARIABLES operation_fields, call, written, encoded, cddl

vars == <<operations, result, graph, sorted_graph,
          operation_fields, call, written, encoded, cddl>>

\* The objects a specification does not use stay as they are made.
fields_vars == <<operation_fields, call, written>>
NoOperationFields == operation_fields = <<>> /\ call = None /\ written = <<>>
NoEncoded == encoded = None
NoCddl == cddl = None

\* DocumentBuilder::new(operations): operations with distinct ids, of which at
\* most MaxForeign carry another schema, in ascending id order.
Init ==
    /\ \E S \in SUBSET Ids :
         /\ \E w \in [S -> Shapes] :
              /\ \A i \in S : NoSelfLink(i, w[i])
              /\ \E F \in SUBSET S :
                   /\ Cardinality(F) <= MaxForeign
                   /\ LET ids == SortedKeys(S)
                      IN  operations =
                            [i \in 1..Len(ids) |->
                                OperationWithMeta(ids[i], w[ids[i]],
                                    IF ids[i] \in F THEN ForeignSchema ELSE DocSchema)]
    /\ result = None
    /\ graph = GraphNew
    /\ sorted_graph = None
    /\ NoOperationFields /\ NoEncoded /\ NoCddl

\* DocumentBuilder::build(&self)
Build ==
    /\ result' = Some(build(operations))
    /\ UNCHANGED <<operations, graph, sorted_graph>>
    /\ UNCHANGED <<fields_vars, encoded, cddl>>

Next == Build

Spec == Init /\ [][Next]_vars

(***************************************************************************)
(* A builder whose operations may name any hash, their own included: the   *)
(* builder takes what the transport hands it.  The ids and the hashes      *)
(* named are those of LinkIds and all operations have the same schema.     *)
(***************************************************************************)
LinkIds == 1..(NumIds - 1)

AnyShapes ==
    {[action |-> "create", previous_operations |-> None]}
    \cup {[action |-> a, previous_operations |-> Some(SortedKeys(P))] :
             a \in {"update", "delete"},
             P \in {Q \in SUBSET LinkIds : Cardinality(Q) <= MaxPrev}}

InitAnyLinks ==
    /\ \E S \in SUBSET LinkIds :
         \E w \in [S -> AnyShapes] :
             LET ids == SortedKeys(S)
             IN  operations =
                   [i \in 1..Len(ids) |-> OperationWithMeta(ids[i], w[ids[i]], DocSchema)]
    /\ result = None
    /\ graph = GraphNew
    /\ sorted_graph = None
    /\ NoOperationFields /\ NoEncoded /\ NoCddl

SpecAnyLinks == InitAnyLinks /\ [][Next]_vars

(***************************************************************************)
(* The Graph on its own: nodes and links are added one call at a time and  *)
(* the graph is sorted.  The payload of the node of key k is k.            *)
(***************************************************************************)
Keys == 1..NumKeys

InitGraph ==
    /\ operations = <<>>
    /\ result = None
    /\ graph = GraphNew
    /\ sorted_graph = None
    /\ NoOperationFields /\ NoEncoded /\ NoCddl

\* graph.add_node(key, payload)
GraphAddNode ==
    /\ \E k \in Keys : graph' = add_node(graph, k, k)
    /\ sorted_graph' = None
    /\ UNCHANGED <<operations, result, fields_vars, encoded, cddl>>

\* graph.add_link(from, to), at most MaxLinks links
GraphAddLink ==
    /\ Cardinality(graph.links) < MaxLinks
    /\ \E from \in Keys, to \in Keys : graph' = add_link(graph, from, to).graph
    /\ sorted_graph' = None
    /\ UNCHANGED <<operations, result, fields_vars, encoded, cddl>>

\* graph.sort()
GraphSort ==
    /\ sorted_graph' = Some(sort(graph))
    /\ UNCHANGED <<operations, result, graph, fields_vars, encoded, cddl>>

NextGraph == GraphAddNode \/ GraphAddLink \/ GraphSort

SpecGraph == InitGraph /\ [][NextGraph]_vars

(***************************************************************************)
(* Graph::sort step by step: the loop of step 3 as one action per node     *)
(* emitted.  call holds the in-degrees and the nodes emitted so far while   *)
(* sort runs, sorted_graph the value sort returned.                        *)
(***************************************************************************)
MaxSortKeys == 4
MaxSortLinks == 3

\* The sets of at most n of the given links.
RECURSIVE LinkSets(_, _)
LinkSets(pairs, n) ==
    IF n = 0 THEN {{}}
    ELSE LET smaller == LinkSets(pairs, n - 1)
         IN  smaller \cup {L \cup {l} : L \in smaller, l \in pairs}

\* The graphs sort is called on: nodes 1..n, at most MaxSortLinks links between
\* them, self-links and cycles included.
SortGraphs ==
    UNION {{[nodes |-> [k \in 1..n |-> k], links |-> L] :
               L \in LinkSets((1..n) \X (1..n), MaxSortLinks)} : n \in 1..MaxSortKeys}

\* Step 3: the ready set of the loop.
kahn_ready(g, loop) ==
    {k \in DOMAIN g.nodes : loop.indeg[k] = 0 /\ k \notin Range(loop.emitted)}

\* Faulty variant of kahn_step: the turn of the loop changes nothing.
kahn_step_idle(g, loop) == loop

\* Step 3: one turn of the loop, the picked key emitted and the in-degree
\* of its successors decremented.
kahn_step(g, loop) ==
    LET k == PickReady(kahn_ready(g, loop))
        succ == Successors(g, k)
    IN  [emitted |-> Append(loop.emitted, k),
         indeg |-> [j \in DOMAIN loop.indeg |->
                       IF j \in succ THEN loop.indeg[j] - 1 ELSE loop.indeg[j]],
         method |-> "sort"]

\* Step 4: the value returned when the ready set is empty.
sort_finish(g, emitted) ==
    IF Len(emitted) # Cardinality(DOMAIN g.nodes)
    THEN [ok |-> FALSE, error |-> [kind |-> "CycleDetected", id |-> 0]]
    ELSE LET tips == GraphTips(g)
         IN  [ok |-> TRUE,
              sorted |-> [i \in 1..Len(emitted) |-> g.nodes[emitted[i]]],
              current_graph_tips |-> [i \in 1..Len(tips) |-> g.nodes[tips[i]]]]

InitSort ==
    /\ operations = <<>>
    /\ result = None
    /\ graph \in SortGraphs
    /\ sorted_graph = None
    /\ NoOperationFields /\ NoEncoded /\ NoCddl

\* graph.sort() is entered: steps 1 and 2.
SortBegin ==
    /\ call = None /\ sorted_graph = None
    /\ IF Cardinality(Roots(graph)) > 1
       THEN /\ sorted_graph' =
                   Some([ok |-> FALSE, error |-> [kind |-> "UnconnectedNode", id |-> 0]])
            /\ call' = None
       ELSE /\ call' = Some([emitted |-> <<>>,
                             indeg |-> [k \in DOMAIN graph.nodes |-> InDegree(graph, k)],
                             method |-> "sort"])
            /\ sorted_graph' = None
    /\ UNCHANGED <<operations, result, graph, operation_fields, written, encoded, cddl>>

\* One turn of the loop of step 3.
SortStep ==
    /\ call # None
    /\ kahn_ready(graph, call[1]) # {}
    /\ call' = Some(kahn_step(graph, call[1]))
    /\ UNCHANGED <<operations, result, graph, sorted_graph, operation_fields, written,
                   encoded, cddl>>

\* The ready set is empty: step 4, sort returns.
SortEnd ==
    /\ call # None
    /\ kahn_ready(graph, call[1]) = {}
    /\ sorted_graph' = Some(sort_finish(graph, call[1].emitted))
    /\ call' = None
    /\ UNCHANGED <<operations, result, graph, operation_fields, written, encoded, cddl>>

NextSort == SortBegin \/ SortStep \/ SortEnd

\* sort runs to its end once called: nothing else runs beside it.
SpecSort == InitSort /\ [][NextSort]_vars /\ WF_vars(NextSort)

\* The payloads of the nodes of a graph built by add_node calls alone.
Payloads == {"first", "second"}

\* Graph::new, no add_node call made yet; written keeps the payload last
\* passed under each key.
InitNodes ==
    /\ operations = <<>>
    /\ result = None
    /\ graph = GraphNew
    /\ sorted_graph = None
    /\ operation_fields = <<>>
    /\ call = None
    /\ written = [k \in Keys |-> None]
    /\ NoEncoded /\ NoCddl

\* graph.add_node(key, payload), any payload
GraphPutNode ==
    /\ \E k \in Keys, payload \in Payloads :
          /\ graph' = add_node(graph, k, payload)
          /\ call' = Some([method |-> "add_node", name |-> k, value |-> Some(payload)])
          /\ written' = [written EXCEPT ![k] = Some(payload)]
    /\ UNCHANGED <<operations, result, sorted_graph, operation_fields, encoded, cddl>>

NextNodes == GraphPutNode

SpecNodes == InitNodes /\ [][NextNodes]_vars

(***************************************************************************)
(* BTreeMap<String, V> (std), as OperationFields, Group and CddlGenerator   *)
(* use it: a sequence of entries [key, value] in ascending key order with  *)
(* no key twice.  KeyOrder lists the keys of the model in lexicographic    *)
(* order.                                                                  *)
(***************************************************************************)
KeyOrder == <<"a", "age", "b", "name", "type", "value">>

KeyRank(k) == CHOOSE i \in 1..Len(KeyOrder) : KeyOrder[i] = k

BTreeMapNew == <<>>

contains_key(map, k) == \E i \in 1..Len(map) : map[i].key = k

\* BTreeMap::get: Some(value) or None
btree_get(map, k) ==
    IF contains_key(map, k)
    THEN Some(map[CHOOSE i \in 1..Len(map) : map[i].key = k].value)
    ELSE None

\* Faulty variant of btree_insert: a new key is put behind the last entry.
btree_push(map, k, v) ==
    IF contains_key(map, k)
    THEN [i \in 1..Len(map) |-> IF map[i].key = k THEN [key |-> k, value |-> v] ELSE map[i]]
    ELSE Append(map, [key |-> k, value |-> v])

\* Faulty variant of btree_insert: the value of an existing key is kept.
btree_insert_keeping(map, k, v) ==
    IF contains_key(map, k) THEN map
    ELSE LET n == Cardinality({i \in 1..Len(map) : KeyRank(map[i].key) < KeyRank(k)})
         IN  SubSeq(map, 1, n) \o <<[key |-> k, value |-> v]>> \o SubSeq(map, n + 1, Len(map))

\* BTreeMap::insert: the value of an existing key is replaced, a new key is
\* put at its place in the key order.
btree_insert(map, k, v) ==
    IF contains_key(map, k)
    THEN [i \in 1..Len(map) |-> IF map[i].key = k THEN [key |-> k, value |-> v] ELSE map[i]]
    ELSE LET n == Cardinality({i \in 1..Len(map) : KeyRank(map[i].key) < KeyRank(k)})
         IN  SubSeq(map, 1, n) \o <<[key |-> k, value |-> v]>> \o SubSeq(map, n + 1, Len(map))

\* BTreeMap::remove
btree_remove(map, k) == SelectSeq(map, LAMBDA e : e.key # k)

(***************************************************************************)
(* OperationValue and OperationFields (operation.rs).  A value is its serde *)
(* form: the tag of its variant and its content, written as a string.      *)
(***************************************************************************)
FieldValues ==
    {[type |-> "bool", value |-> "false"],
     [type |-> "int", value |-> "28"],
     [type |-> "float", value |-> "3.5"],
     [type |-> "str", value |-> "bubu"],
     [type |-> "relation", value |-> "0020c6"]}

OperationFieldsNew == BTreeMapNew

OperationFieldsError(kind) == [ok |-> FALSE, error |-> kind]

\* OperationFields::len
fields_len(fields) == Len(fields)

\* Faulty variant of fields_add: an existing name is overwritten.
fields_add_overwriting(fields, name, value) ==
    [result |-> [ok |-> TRUE], fields |-> btree_insert(fields, name, value)]

\* OperationFields::add
fields_add(fields, name, value) ==
    IF contains_key(fields, name)
    THEN [result |-> OperationFieldsError("FieldDuplicate"), fields |-> fields]
    ELSE [result |-> [ok |-> TRUE], fields |-> btree_insert(fields, name, value)]

\* OperationFields::update
fields_update(fields, name, value) ==
    IF ~contains_key(fields, name)
    THEN [result |-> OperationFieldsError("UnknownField"), fields |-> fields]
    ELSE [result |-> [ok |-> TRUE], fields |-> btree_insert(fields, name, value)]

\* OperationFields::remove
fields_remove(fields, name) ==
    IF ~contains_key(fields, name)
    THEN [result |-> OperationFieldsError("UnknownField"), fields |-> fields]
    ELSE [result |-> [ok |-> TRUE], fields |-> btree_remove(fields, name)]

\* OperationFields::get
fields_get(fields, name) ==
    IF ~contains_key(fields, name) THEN None ELSE btree_get(fields, name)

\* OperationFields::keys
fields_keys(fields) == [i \in 1..Len(fields) |-> fields[i].key]

\* OperationFields::iter
fields_iter(fields) == fields

\* The entries of an OperationFields, added one after the other from entry i.
RECURSIVE AddAll(_, _, _)
AddAll(fields, entries, i) ==
    IF i > Len(entries) THEN fields
    ELSE AddAll(fields_add(fields, entries[i].key, entries[i].value).fields, entries, i + 1)

(***************************************************************************)
(* Operation (operation.rs): its constructors and its validation.          *)
(***************************************************************************)
OperationVersionDefault == 1

\* The OperationFields with the names of D and the values of v.
RECURSIVE FieldsOver(_, _, _)
FieldsOver(fields, D, v) ==
    IF D = {} THEN fields
    ELSE LET n == CHOOSE m \in D : TRUE
         IN  FieldsOver(fields_add(fields, n, v[n]).fields, D \ {n}, v)

\* The OperationFields over FieldNames, the empty one included.
FieldsUniverse ==
    {FieldsOver(OperationFieldsNew, D, v) :
        D \in SUBSET FieldNames, v \in [FieldNames -> FieldValues]}

\* OperationFields::is_empty
is_empty(fields) == DOMAIN fields = {}

Ok == [ok |-> TRUE]
OperationError(kind) == [ok |-> FALSE, error |-> kind]

\* Faulty variant of validate: only absent fields are refused, not empty ones.
validate_absent_fields_only(op) ==
    IF ~is_delete(op) /\ ~has_fields(op)
    THEN OperationError("EmptyFields")
    ELSE IF ~is_create(op) /\ ~has_previous_operations(op)
    THEN OperationError("EmptyPreviousOperations")
    ELSE IF is_create(op) /\ has_previous_operations(op)
    THEN OperationError("ExistingPreviousOperations")
    ELSE Ok

\* Faulty variant of validate: previous_operations is required of an UPDATE
\* only.
validate_previous_of_update_only(op) ==
    IF ~is_delete(op) /\ (~has_fields(op) \/ is_empty(Unwrap(op.fields)))
    THEN OperationError("EmptyFields")
    ELSE IF is_update(op) /\ ~has_previous_operations(op)
    THEN OperationError("EmptyPreviousOperations")
    ELSE IF is_create(op) /\ has_previous_operations(op)
    THEN OperationError("ExistingPreviousOperations")
    ELSE Ok

\* Validate for Operation::validate
validate(op) ==
    IF ~is_delete(op) /\ (~has_fields(op) \/ is_empty(Unwrap(op.fields)))
    THEN OperationError("EmptyFields")
    ELSE IF ~is_create(op) /\ ~has_previous_operations(op)
    THEN OperationError("EmptyPreviousOperations")
    ELSE IF is_create(op) /\ has_previous_operations(op)
    THEN OperationError("ExistingPreviousOperations")
    ELSE Ok

\* operation.validate()?; Ok(operation)
Validated(operation) ==
    LET v == validate(operation)
    IN  IF v.ok THEN [ok |-> TRUE, operation |-> operation] ELSE v

new_create(schema, fields) ==
    Validated([action |-> "create", fields |-> Some(fields), id |-> None,
               previous_operations |-> None, schema |-> schema,
               version |-> OperationVersionDefault])

new_update(schema, id, previous_operations, fields) ==
    Validated([action |-> "update", fields |-> Some(fields), id |-> Some(id),
               previous_operations |-> Some(previous_operations), schema |-> schema,
               version |-> OperationVersionDefault])

new_delete(schema, id, previous_operations) ==
    Validated([action |-> "delete", fields |-> None, id |-> Some(id),
               previous_operations |-> Some(previous_operations), schema |-> schema,
               version |-> OperationVersionDefault])

(***************************************************************************)
(* The codec of Operation: serde_cbor over the derived Serialize and       *)
(* Deserialize.  An encoding is the sequence of the entries [key, value]   *)
(* of the CBOR map, in the order they are written.                         *)
(***************************************************************************)
\* The value of the entry of key k.
Lookup(map, k) == map[CHOOSE i \in 1..Len(map) : map[i].key = k].value

\* OperationValue: #[serde(tag = "type", content = "value")]
serialize_value(v) == <<[key |-> "type", value |-> v.type], [key |-> "value", value |-> v.value]>>
deserialize_value(m) == [type |-> Lookup(m, "type"), value |-> Lookup(m, "value")]

\* OperationFields: the entries of the map in iteration order;
\* deserialising inserts them one by one.
serialize_fields(fields) ==
    [i \in 1..Len(fields) |-> [key |-> fields[i].key, value |-> serialize_value(fields[i].value)]]

RECURSIVE deserialize_fields(_, _, _)
deserialize_fields(map, m, i) ==
    IF i > Len(m) THEN map
    ELSE deserialize_fields(btree_insert(map, m[i].key, deserialize_value(m[i].value)), m, i + 1)

\* Faulty variant of to_cbor: an absent optional field is written with an
\* empty value instead of being left out.
to_cbor_writing_absent(op) ==
    <<[key |-> "action", value |-> op.action],
      [key |-> "schema", value |-> op.schema],
      [key |-> "version", value |-> op.version],
      [key |-> "previousOperations",
       value |-> IF IsSome(op.previous_operations) THEN Unwrap(op.previous_operations) ELSE <<>>],
      [key |-> "id", value |-> IF IsSome(op.id) THEN Unwrap(op.id) ELSE <<>>],
      [key |-> "fields",
       value |-> IF IsSome(op.fields) THEN serialize_fields(Unwrap(op.fields)) ELSE <<>>]>>

\* Operation::to_cbor: the struct's fields in declaration order, camelCase
\* keys, skip_serializing_if = "Option::is_none" on the three optional ones.
to_cbor(op) ==
    <<[key |-> "action", value |-> op.action],
      [key |-> "schema", value |-> op.schema],
      [key |-> "version", value |-> op.version]>>
    \o (IF IsSome(op.previous_operations)
        THEN <<[key |-> "previousOperations", value |-> Unwrap(op.previous_operations)]>>
        ELSE <<>>)
    \o (IF IsSome(op.id) THEN <<[key |-> "id", value |-> Unwrap(op.id)]>> ELSE <<>>)
    \o (IF IsSome(op.fields)
        THEN <<[key |-> "fields", value |-> serialize_fields(Unwrap(op.fields))]>>
        ELSE <<>>)

\* Operation::from(&operation_encoded): serde_cbor::from_slice; an optional
\* field without an entry is None.
decode(bytes) ==
    [action |-> Lookup(bytes, "action"),
     fields |-> IF contains_key(bytes, "fields")
                THEN Some(deserialize_fields(BTreeMapNew, Lookup(bytes, "fields"), 1))
                ELSE None,
     id |-> IF contains_key(bytes, "id") THEN Some(Lookup(bytes, "id")) ELSE None,
     previous_operations |-> IF contains_key(bytes, "previousOperations")
                             THEN Some(Lookup(bytes, "previousOperations"))
                             ELSE None,
     schema |-> Lookup(bytes, "schema"),
     version |-> Lookup(bytes, "version")]

\* The Operation values: every filling of the struct's fields (the records
\* of the model name them in alphabetical order).
OperationUniverse ==
    [action : {"create", "update", "delete"},
     fields : {None} \cup {Some(f) : f \in FieldsUniverse},
     id : {None} \cup {Some(i) : i \in Ids},
     previous_operations : {None} \cup {Some(p) : p \in PrevLists},
     schema : {DocSchema, ForeignSchema},
     version : {OperationVersionDefault}]

(***************************************************************************)
(* An Operation on its own: operations holds the operation at hand, if     *)
(* any, and result the outcome of the last constructor or validate().      *)
(***************************************************************************)
InitOperation ==
    /\ operations = <<>>
    /\ result = None
    /\ graph = GraphNew
    /\ sorted_graph = None
    /\ NoOperationFields /\ NoEncoded /\ NoCddl

\* Operation::from(&operation_encoded): any value of the struct, not
\* validated.  An Operation is made once and not changed afterwards.
FromEncoded ==
    /\ operations = <<>> /\ result = None
    /\ \E op \in OperationUniverse : operations' = <<op>>
    /\ result' = None
    /\ UNCHANGED <<graph, sorted_graph, fields_vars, encoded, cddl>>

\* operation.validate()
Validate ==
    /\ Len(operations) = 1
    /\ result' = Some(validate(operations[1]))
    /\ UNCHANGED <<operations, graph, sorted_graph, fields_vars, encoded, cddl>>

\* Operation::new_create(schema, fields): the operation at hand is the one
\* returned, if any.
NewCreate ==
    /\ operations = <<>> /\ result = None
    /\ \E s \in {DocSchema, ForeignSchema}, f \in FieldsUniverse :
          LET r == new_create(s, f)
          IN  /\ result' = Some(r)
              /\ operations' = IF r.ok THEN <<r.operation>> ELSE <<>>
    /\ UNCHANGED <<graph, sorted_graph, fields_vars, encoded, cddl>>

\* Operation::new_update(schema, id, previous_operations, fields)
NewUpdate ==
    /\ operations = <<>> /\ result = None
    /\ \E s \in {DocSchema, ForeignSchema}, i \in Ids, p \in PrevLists, f \in FieldsUniverse :
          LET r == new_update(s, i, p, f)
          IN  /\ result' = Some(r)
              /\ operations' = IF r.ok THEN <<r.operation>> ELSE <<>>
    /\ UNCHANGED <<graph, sorted_graph, fields_vars, encoded, cddl>>

\* Operation::new_delete(schema, id, previous_operations)
NewDelete ==
    /\ operations = <<>> /\ result = None
    /\ \E s \in {DocSchema, ForeignSchema}, i \in Ids, p \in PrevLists :
          LET r == new_delete(s, i, p)
          IN  /\ result' = Some(r)
              /\ operations' = IF r.ok THEN <<r.operation>> ELSE <<>>
    /\ UNCHANGED <<graph, sorted_graph, fields_vars, encoded, cddl>>

\* OperationEncoded::try_from(&operation), then Operation::try_from(&encoded):
\* the bytes of the operation at hand and the operation read back from them.
EncodeAndDecode ==
    /\ Len(operations) = 1 /\ encoded = None
    /\ encoded' = Some([bytes |-> to_cbor(operations[1]),
                        restored |-> decode(to_cbor(operations[1]))])
    /\ UNCHANGED <<operations, result, graph, sorted_graph, fields_vars, cddl>>

NextOperation ==
    FromEncoded \/ Validate \/ NewCreate \/ NewUpdate \/ NewDelete \/ EncodeAndDecode

SpecOperation == InitOperation /\ [][NextOperation]_vars

(***************************************************************************)
(* An OperationFields on its own: operation_fields is the container, call  *)
(* the last call made on it, result the outcome of that call, and          *)
(* written[n] the value the last successful add or update wrote under n,   *)
(* None once n is removed.                                                 *)
(***************************************************************************)
InitFields ==
    /\ operations = <<>>
    /\ result = None
    /\ graph = GraphNew
    /\ sorted_graph = None
    /\ operation_fields = OperationFieldsNew
    /\ call = None
    /\ written = [n \in FieldNames |-> None]
    /\ NoEncoded /\ NoCddl

\* fields.add(name, value)
FieldsAdd ==
    /\ \E name \in FieldNames, value \in FieldValues :
          LET r == fields_add(operation_fields, name, value)
          IN  /\ operation_fields' = r.fields
              /\ result' = Some(r.result)
              /\ call' = Some([method |-> "add", name |-> name, value |-> Some(value)])
              /\ written' = IF r.result.ok THEN [written EXCEPT ![name] = Some(value)]
                            ELSE written
    /\ UNCHANGED <<operations, graph, sorted_graph, encoded, cddl>>

\* fields.update(name, value)
FieldsUpdate ==
    /\ \E name \in FieldNames, value \in FieldValues :
          LET r == fields_update(operation_fields, name, value)
          IN  /\ operation_fields' = r.fields
              /\ result' = Some(r.result)
              /\ call' = Some([method |-> "update", name |-> name, value |-> Some(value)])
              /\ written' = IF r.result.ok THEN [written EXCEPT ![name] = Some(value)]
                            ELSE written
    /\ UNCHANGED <<operations, graph, sorted_graph, encoded, cddl>>

\* fields.remove(name)
FieldsRemove ==
    /\ \E name \in FieldNames :
          LET r == fields_remove(operation_fields, name)
          IN  /\ operation_fields' = r.fields
              /\ result' = Some(r.result)
              /\ call' = Some([method |-> "remove", name |-> name, value |-> None])
              /\ written' = IF r.result.ok THEN [written EXCEPT ![name] = None]
                            ELSE written
    /\ UNCHANGED <<operations, graph, sorted_graph, encoded, cddl>>

NextFields == FieldsAdd \/ FieldsUpdate \/ FieldsRemove

SpecFields == InitFields /\ [][NextFields]_vars

(***************************************************************************)
(* The CDDL generator (cddl/generator.rs).  A generator is a name and a    *)
(* BTreeMap from keys to fields; to_string appends pieces to a string.     *)
(***************************************************************************)
Types == {"Bool", "Int", "Float", "Tstr", "Relation"}
CddlNames == {"person", "venue"}
CddlKeys == {"a", "age", "name"}

\* ToString for Type
type_to_string(cddl_type) ==
    CASE cddl_type = "Bool" -> "bool"
      [] cddl_type = "Int" -> "int"
      [] cddl_type = "Float" -> "float"
      [] cddl_type = "Tstr" -> "tstr"
      [] cddl_type = "Relation" -> "tstr .regexp \"[0-9a-f]{68}\""

\* The variants of Field.
FieldString(str) == [kind |-> "String", content |-> str]
FieldType(cddl_type) == [kind |-> "Type", content |-> cddl_type]
FieldStruct(group) == [kind |-> "Struct", content |-> group]

\* Group::new, Group::add_field
GroupNew(name) == [fields |-> BTreeMapNew, name |-> name]
group_add_field(group, key, field) ==
    [group EXCEPT !.fields = btree_insert(@, key, field)]

\* The pieces joined into one string.
RECURSIVE Concat(_, _)
Concat(pieces, i) == IF i > Len(pieces) THEN "" ELSE pieces[i] \o Concat(pieces, i + 1)

RECURSIVE field_to_string(_)
RECURSIVE group_pieces(_, _)

\* ToString for Group: "( ", then for every entry ", " unless it is the
\* first and "key: value", then " )".  The pieces from entry count on.
group_pieces(group, count) ==
    IF count > Len(group.fields) THEN <<" )">>
    ELSE (IF count # 1 THEN <<", ">> ELSE <<>>)
         \o <<group.fields[count].key \o ": " \o field_to_string(group.fields[count].value)>>
         \o group_pieces(group, count + 1)

group_to_string(group) == Concat(<<"( ">> \o group_pieces(group, 1), 1)

\* ToString for Field
field_to_string(field) ==
    CASE field.kind = "String" -> field.content
      [] field.kind = "Type" -> type_to_string(field.content)
      [] field.kind = "Struct" -> group_to_string(field.content)

\* CddlGenerator::new
CddlGeneratorNew(name) == [fields |-> BTreeMapNew, name |-> name]

\* The type_string of add_operation_field.
type_string(field_type) ==
    CASE field_type = "Tstr" -> "\"str\""
      [] field_type = "Int" -> "\"int\""
      [] field_type = "Float" -> "\"float\""
      [] field_type = "Bool" -> "\"bool\""
      [] field_type = "Relation" -> "\"relation\""

\* Faulty variant of add_operation_field: a key that has a definition keeps
\* it.
add_operation_field_keeping(generator, key, field_type) ==
    IF contains_key(generator.fields, key) THEN generator
    ELSE [generator EXCEPT !.fields =
             btree_insert(@, key,
                 FieldStruct(group_add_field(
                     group_add_field(GroupNew(key), "type",
                                     FieldString(type_string(field_type))),
                     "value", FieldType(field_type))))]

\* CddlGenerator::add_operation_field
add_operation_field(generator, key, field_type) ==
    LET operation_fields_group ==
            group_add_field(
                group_add_field(GroupNew(key), "type", FieldString(type_string(field_type))),
                "value", FieldType(field_type))
    IN  [generator EXCEPT !.fields = btree_insert(@, key, FieldStruct(operation_fields_group))]

\* Faulty variant of cddl_pieces: the separator follows every element.
RECURSIVE cddl_pieces_separator_after(_, _)
cddl_pieces_separator_after(generator, count) ==
    IF count > Len(generator.fields) THEN <<" }">>
    ELSE <<generator.fields[count].key \o ": { "
              \o field_to_string(generator.fields[count].value) \o " }">>
         \o <<", ">>
         \o cddl_pieces_separator_after(generator, count + 1)

\* ToString for CddlGenerator: "name = { ", then for every entry ", " unless
\* it is the first and "key: { value }", then " }".  The pieces from entry
\* count on.
RECURSIVE cddl_pieces(_, _)
cddl_pieces(generator, count) ==
    IF count > Len(generator.fields) THEN <<" }">>
    ELSE (IF count # 1 THEN <<", ">> ELSE <<>>)
         \o <<generator.fields[count].key \o ": { "
                 \o field_to_string(generator.fields[count].value) \o " }">>
         \o cddl_pieces(generator, count + 1)

cddl_to_string(generator) ==
    LET pieces == <<generator.name \o " = { ">> \o cddl_pieces(generator, 1)
    IN  [pieces |-> pieces, text |-> Concat(pieces, 1)]

\* No generator made yet.
InitCddl ==
    /\ operations = <<>>
    /\ result = None
    /\ graph = GraphNew
    /\ sorted_graph = None
    /\ NoOperationFields /\ NoEncoded /\ NoCddl

\* CddlGenerator::new(name)
CddlNew ==
    /\ cddl = None
    /\ \E name \in CddlNames : cddl' = Some(CddlGeneratorNew(name))
    /\ written' = [k \in CddlKeys |-> None]
    /\ result' = None
    /\ UNCHANGED <<operations, graph, sorted_graph, operation_fields, call, encoded>>

\* cddl.add_operation_field(key, field_type); written keeps the type last
\* passed under each key, call whether the key had a definition before.
CddlAddOperationField ==
    /\ cddl # None
    /\ \E key \in CddlKeys, field_type \in Types :
          /\ cddl' = Some(add_operation_field(Unwrap(cddl), key, field_type))
          /\ call' = Some([method |-> "add_operation_field", name |-> key,
                           replaced |-> contains_key(Unwrap(cddl).fields, key),
                           value |-> Some(field_type)])
          /\ written' = [written EXCEPT ![key] = Some(field_type)]
    /\ result' = None
    /\ UNCHANGED <<operations, graph, sorted_graph, operation_fields, encoded>>

\* cddl.to_string()
CddlToString ==
    /\ cddl # None
    /\ result' = Some(cddl_to_string(Unwrap(cddl)))
    /\ UNCHANGED <<operations, graph, sorted_graph, fields_vars, encoded, cddl>>

NextCddl == CddlNew \/ CddlAddOperationField \/ CddlToString

SpecCddl == InitCddl /\ [][NextCddl]_vars

(***************************************************************************)
(* Vocabulary of the properties.                                           *)
(***************************************************************************)
Built == IsSome(result)
Res == Unwrap(result)
Doc == Res.document

\* The orderings of a sequence of operations.
Orderings(ops) ==
    {[i \in 1..Len(ops) |-> ops[f[i]]] : f \in Permutations(1..Len(ops))}

\* ops without its i-th element.
Without(ops, i) == [j \in 1..(Len(ops) - 1) |-> IF j < i THEN ops[j] ELSE ops[j + 1]]

IdsOf(ops) == {ops[i].operation_id : i \in 1..Len(ops)}
Creates(ops) == {i \in 1..Len(ops) : ops[i].action = "create"}
PrevOf(op) == IF op.previous_operations = <<>> THEN {} ELSE Range(op.previous_operations[1])
Referenced(ops) == UNION {PrevOf(ops[i]) : i \in 1..Len(ops)}

\* C1: permutation invariance.  Every ordering of the builder's operations
\* builds as the given one does: it succeeds exactly when the given one does,
\* and on success returns the same Document (id, author, schema, view,
\* operations list, current_graph_tips, deleted and edited flags).
C1_PermutationInvariance ==
    Built => \A p \in Orderings(operations) :
                 /\ build(p).ok = Res.ok
                 /\ Res.ok => build(p) = Res

\* A successful build of three or more operations whose input order is not
\* the sorted order.
C1_Witness ==
    /\ Built /\ Res.ok
    /\ Len(operations) >= 3
    /\ Doc.meta.operations # operations

\* C2: idempotence under duplicates.  When build succeeds, building from the
\* input with any one of its operations given a second time returns the same
\* result.
C2_DuplicateIdempotence ==
    (Built /\ Res.ok) =>
        \A i \in 1..Len(operations) : build(Append(operations, operations[i])) = Res

\* C3: CREATE uniqueness.  build succeeds only with exactly one CREATE; with
\* none it returns NoCreateOperation, with more than one
\* MoreThanOneCreateOperation.
C3_CreateUniqueness ==
    Built =>
        LET n == Cardinality(Creates(operations))
        IN  /\ Res.ok => n = 1
            /\ n = 0 => Res = Err("NoCreateOperation", 0)
            /\ n > 1 => Res = Err("MoreThanOneCreateOperation", 0)

\* A build of an input with two CREATE operations and other operations.
C3_Witness ==
    /\ Built
    /\ Cardinality(Creates(operations)) = 2
    /\ Len(operations) > 2
    /\ Res.error.kind = "MoreThanOneCreateOperation"

\* C4: schema uniformity.  With exactly one CREATE and an operation of another
\* schema than the CREATE's, build returns OperationSchemaNotMatching; on
\* success every operation of Document.operations has the Document's schema.
C4_SchemaUniformity ==
    Built =>
        /\ (/\ Cardinality(Creates(operations)) = 1
            /\ \E i \in 1..Len(operations) : \E c \in Creates(operations) :
                   operations[i].schema # operations[c].schema)
           => Res = Err("OperationSchemaNotMatching", 0)
        /\ Res.ok => \A i \in 1..Len(Doc.meta.operations) :
                        Doc.meta.operations[i].schema = Doc.schema

\* A build rejected for its schema although all links are valid: the CREATE
\* alone has the other schema.
C4_Witness ==
    /\ Built
    /\ Res = Err("OperationSchemaNotMatching", 0)
    /\ Len(operations) >= 3
    /\ \E c \in Creates(operations) : operations[c].schema = ForeignSchema
    /\ Referenced(operations) \subseteq IdsOf(operations)

\* The operations that name a hash that is no operation of the input.
Dangling(ops) ==
    {ops[i].operation_id : i \in {j \in 1..Len(ops) : ~(PrevOf(ops[j]) \subseteq IdsOf(ops))}}

UniformSingleCreate(ops) ==
    /\ Cardinality(Creates(ops)) = 1
    /\ \A i, j \in 1..Len(ops) : ops[i].schema = ops[j].schema

\* C5: dangling link rejection.  With a single CREATE and a uniform schema, an
\* UPDATE or DELETE naming a hash that is no operation of the input makes
\* build fail with InvalidOperationLink carrying the id of an operation that
\* names a missing hash; no Document is returned.
C5_DanglingLink ==
    (Built /\ UniformSingleCreate(operations) /\ Dangling(operations) # {}) =>
        /\ ~Res.ok
        /\ Res.error.kind = "InvalidOperationLink"
        /\ Res.error.id \in Dangling(operations)
        /\ "document" \notin DOMAIN Res

\* A rejected build in which an operation also has a valid link.
C5_Witness ==
    /\ Built /\ UniformSingleCreate(operations)
    /\ ~Res.ok
    /\ Res.error.kind = "InvalidOperationLink"
    /\ \E i \in 1..Len(operations) :
          /\ operations[i].operation_id = Res.error.id
          /\ PrevOf(operations[i]) \cap IdsOf(operations) # {}

\* C6: causal order.  On success Document.operations holds every operation of
\* the input exactly once, the CREATE first, and every operation after all
\* operations it names in previous_operations.
C6_CausalOrder ==
    (Built /\ Res.ok) =>
        LET sorted == Doc.meta.operations
        IN  /\ Len(sorted) = Len(operations)
            /\ Range(sorted) = Range(operations)
            /\ is_create(sorted[1])
            /\ \A i \in 1..Len(sorted) : \A q \in PrevOf(sorted[i]) :
                   \E j \in 1..(i - 1) : sorted[j].operation_id = q

\* A successful build of four operations with a merge: an operation that
\* names two UPDATE operations, and the CREATE not first in the input.
C6_Witness ==
    /\ Built /\ Res.ok
    /\ Len(operations) = 4
    /\ ~is_create(operations[1])
    /\ \E i \in 1..4 :
          /\ Cardinality(PrevOf(operations[i])) = 2
          /\ \A j \in 1..4 : operations[j].operation_id \in PrevOf(operations[i])
                                 => is_update(operations[j])

\* C8: tips correctness.  On success current_graph_tips holds exactly the ids
\* of the input that no operation of the input names in previous_operations.
C8_TipsCorrectness ==
    (Built /\ Res.ok) =>
        /\ Range(Doc.meta.current_graph_tips) = IdsOf(operations) \ Referenced(operations)
        /\ Len(Doc.meta.current_graph_tips)
               = Cardinality(IdsOf(operations) \ Referenced(operations))

\* A successful build with two tips, neither of which is the last operation
\* of the input.
C8_Witness ==
    /\ Built /\ Res.ok
    /\ Len(Doc.meta.current_graph_tips) = 2
    /\ operations[Len(operations)].operation_id \notin Range(Doc.meta.current_graph_tips)

\* The positions of the sorted operations whose fields mention f.
Writers(sorted, f) ==
    {i \in 1..Len(sorted) : sorted[i].fields # <<>> /\ f \in DOMAIN sorted[i].fields[1]}

Max(S) == CHOOSE k \in S : \A j \in S : j <= k

\* C9: field-level last-write-wins.  On success the view holds, for each
\* field name, the value of the last operation of Document.operations whose
\* fields mention it, and no other field.
C9_FieldLastWriteWins ==
    (Built /\ Res.ok) =>
        \A f \in FieldNames :
            LET w == Writers(Doc.meta.operations, f)
            IN  IF w = {} THEN f \notin DOMAIN Doc.view
                ELSE /\ f \in DOMAIN Doc.view
                     /\ Doc.view[f] = Doc.meta.operations[Max(w)].fields[1][f]

\* A successful build whose last UPDATE leaves a field at the value an
\* earlier operation wrote, and overwrites another.
C9_Witness ==
    /\ Built /\ Res.ok
    /\ \E f, h \in FieldNames :
          LET sorted == Doc.meta.operations
          IN  /\ Writers(sorted, f) # {} /\ Writers(sorted, h) # {}
              /\ Max(Writers(sorted, h)) = Len(sorted)
              /\ Max(Writers(sorted, f)) < Len(sorted)
              /\ Cardinality(Writers(sorted, h)) > 1

\* The positions of the DELETE operations of ops that name exactly the tips
\* of the rest of ops, on which build succeeds, and share its schema.
DeletesOnTips(ops) ==
    {i \in 1..Len(ops) :
        /\ is_delete(ops[i])
        /\ build(Without(ops, i)).ok
        /\ ops[i].previous_operations
               = Some(build(Without(ops, i)).document.meta.current_graph_tips)
        /\ ops[i].schema = build(Without(ops, i)).document.schema}

\* C10: DELETE leaves the view untouched.  When build succeeds on S and a
\* DELETE d of the document's schema names the tips of S as its
\* previous_operations, build of S with d succeeds with the view of build(S).
C10_DeleteKeepsView ==
    Built => \A i \in DeletesOnTips(operations) :
                 /\ Res.ok
                 /\ Res.document.view = build(Without(operations, i)).document.view

\* A DELETE on the two tips of a set with an UPDATE.
C10_Witness ==
    /\ Built
    /\ \E i \in DeletesOnTips(operations) :
          /\ Cardinality(PrevOf(operations[i])) = 2
          /\ \E j \in 1..Len(operations) : is_update(operations[j])

(***************************************************************************)
(* Properties of the Graph on its own.                                     *)
(***************************************************************************)
Sorted == IsSome(sorted_graph) /\ sorted_graph[1].ok
SortedKeysOf == sorted_graph[1].sorted
Preds(g, k) == {l[1] : l \in {m \in g.links : m[2] = k}}
Pos(seq, k) == CHOOSE i \in 1..Len(seq) : seq[i] = k

\* The topological rank of a node of an acyclic graph: the length of the
\* longest path that ends in it.
RECURSIVE Rank(_, _)
Rank(g, k) ==
    IF Preds(g, k) = {} THEN 0
    ELSE 1 + Max({Rank(g, p) : p \in Preds(g, k)})

\* C7 as stated: in the sorted sequence, of two operations of the same
\* topological rank the one with the smaller id comes first.
C7_RankTieBreak ==
    Sorted =>
        \A i, j \in 1..Len(SortedKeysOf) :
            (/\ Rank(graph, SortedKeysOf[i]) = Rank(graph, SortedKeysOf[j])
             /\ SortedKeysOf[i] < SortedKeysOf[j]) => i < j

\* C7 as amended: in the sorted sequence, of two operations that are ready
\* together (everything either names in previous_operations comes before
\* both) the one with the smaller id comes first.
C7_ReadyTieBreak ==
    Sorted =>
        \A i, j \in 1..Len(SortedKeysOf) :
            (/\ SortedKeysOf[i] < SortedKeysOf[j]
             /\ \A p \in Preds(graph, SortedKeysOf[i]) \cup Preds(graph, SortedKeysOf[j]) :
                    Pos(SortedKeysOf, p) < i /\ Pos(SortedKeysOf, p) < j)
            => i < j

\* A sorted graph in which two nodes of different ranks were ready together
\* and the smaller key, not the one added or linked first, was emitted first.
C7_Witness ==
    /\ Sorted
    /\ \E i, j \in 1..Len(SortedKeysOf) :
          /\ i < j
          /\ SortedKeysOf[i] < SortedKeysOf[j]
          /\ Rank(graph, SortedKeysOf[i]) > Rank(graph, SortedKeysOf[j])
          /\ \A p \in Preds(graph, SortedKeysOf[i]) \cup Preds(graph, SortedKeysOf[j]) :
                 Pos(SortedKeysOf, p) < i

(***************************************************************************)
(* The flags and the identity of the Document.                             *)
(***************************************************************************)
HasDelete(ops) == \E i \in 1..Len(ops) : ops[i].action = "delete"
HasUpdate(ops) == \E i \in 1..Len(ops) : ops[i].action = "update"

\* C11: deleted flag.  On every successful build is_deleted() is true when
\* the input holds a DELETE operation and false when it holds none.
C11_DeletedFlag ==
    (Built /\ Res.ok) => (Doc.meta.deleted <=> HasDelete(operations))

\* A successful build of a deleted document whose DELETE is not the last
\* operation of the input.
C11_Witness ==
    /\ Built /\ Res.ok
    /\ Doc.meta.deleted
    /\ HasDelete(operations)
    /\ operations[Len(operations)].action # "delete"

C13_EditedMeansUpdate ==
    (Built /\ Res.ok) => (Doc.meta.edited <=> HasUpdate(Doc.meta.operations))

\* C14: document identity.  On every successful build Document.id, author
\* and schema are the operation_id, public key and schema of the single
\* CREATE of the input, at whatever position the CREATE is.
C14_DocumentIdentity ==
    (Built /\ Res.ok) =>
        \A c \in Creates(operations) :
            /\ Doc.id = operations[c].operation_id
            /\ Doc.author = operations[c].public_key
            /\ Doc.schema = operations[c].schema

\* A successful build whose CREATE is the last operation of the input and is
\* signed by another key than the first operation.
C14_Witness ==
    /\ Built /\ Res.ok
    /\ Len(operations) >= 3
    /\ Creates(operations) = {Len(operations)}
    /\ operations[1].public_key # Doc.author

(***************************************************************************)
(* Connectivity of the operations of a builder.                            *)
(***************************************************************************)
\* The edges among the operations of ops: <<p, o>> when o names p.
EdgesOf(ops) ==
    UNION {{<<q, ops[i].operation_id>> : q \in PrevOf(ops[i]) \cap IdsOf(ops)} :
              i \in 1..Len(ops)}

\* The ids reached from the ids of R along the edges of E, R included.
RECURSIVE ReachFrom(_, _)
ReachFrom(E, R) ==
    LET n == R \cup {e[2] : e \in {f \in E : f[1] \in R}}
    IN  IF n = R THEN R ELSE ReachFrom(E, n)

\* The operations of ops no path from a CREATE of ops leads to.
Unreachable(ops) ==
    IdsOf(ops) \ ReachFrom(EdgesOf(ops), {ops[c].operation_id : c \in Creates(ops)})

\* C15: causal connectivity.  build succeeds only if every operation of the
\* input is reached from the CREATE along the edges from an operation to the
\* operations that name it; an input with an operation that is not reached
\* is rejected.
C15_CausalConnectivity ==
    Built => (/\ Res.ok => Unreachable(operations) = {}
              /\ Unreachable(operations) # {} => ~Res.ok)

\* A rejected build with one CREATE, one schema and no missing hash, in which
\* a component of two operations with a root of its own is not reached.
C15_Witness ==
    /\ Built /\ UniformSingleCreate(operations) /\ Dangling(operations) = {}
    /\ Cardinality(Unreachable(operations)) = 2
    /\ ~Res.ok /\ Res.error.kind = "UnconnectedNode"
    /\ Len(operations) = 4

(***************************************************************************)
(* Cycles and roots of the graph of a builder.                             *)
(***************************************************************************)
\* The graph resolve_view builds from ops when no link is missing.
GraphOf(ops) == AddLinks(AddNodes(GraphNew, ops, 1), ops, 1, 1).graph

\* An edge of E closes a cycle: its source is reached from its target.
HasCycle(E) == \E e \in E : e[1] \in ReachFrom(E, {e[2]})

\* The operations of ops that name no operation of ops.
RootsOf(ops) == IdsOf(ops) \ {e[2] : e \in EdgesOf(ops)}

\* C16 as stated: whenever the graph of the operations has a cycle, a
\* self-link or a cycle not reached from the root included, Graph.sort fails
\* with CycleDetected, and build returns that error.
C16_AnyCycleDetected ==
    (Built /\ Dangling(operations) = {} /\ HasCycle(EdgesOf(operations))) =>
        /\ sort(GraphOf(operations)) = Err("CycleDetected", 0)
        /\ UniformSingleCreate(operations) => Res = Err("CycleDetected", 0)

\* C16 as amended: whenever the graph of the operations has a cycle,
\* Graph.sort fails and returns no sorted sequence: with UnconnectedNode when
\* the graph has two or more roots, with CycleDetected otherwise; build
\* returns that error.
C16_CycleRejected ==
    (Built /\ Dangling(operations) = {} /\ HasCycle(EdgesOf(operations))) =>
        LET r == sort(GraphOf(operations))
        IN  /\ ~r.ok
            /\ "sorted" \notin DOMAIN r
            /\ r.error.kind = IF Cardinality(RootsOf(operations)) > 1
                              THEN "UnconnectedNode" ELSE "CycleDetected"
            /\ UniformSingleCreate(operations) => Res = r

\* A build rejected with CycleDetected for a cycle of two operations that is
\* not reached from the CREATE.
C16_Witness ==
    /\ Built /\ UniformSingleCreate(operations) /\ Dangling(operations) = {}
    /\ HasCycle(EdgesOf(operations))
    /\ Cardinality(Unreachable(operations)) = 2
    /\ \A i \in 1..Len(operations) : operations[i].operation_id \notin PrevOf(operations[i])
    /\ Res = Err("CycleDetected", 0)

\* The operations of ops other than a CREATE that carry an empty
\* previous_operations list.
EmptyPrevious(ops) ==
    {i \in 1..Len(ops) : ops[i].action # "create" /\ ops[i].previous_operations = <<<<>>>>}

\* C17: single root.  Whenever the graph of the operations has two or more
\* nodes with in-degree 0, Graph.sort fails with UnconnectedNode; an input of
\* one CREATE, one schema and no missing hash whose UPDATE or DELETE carries
\* an empty previous_operations list is rejected by build with
\* UnconnectedNode.
C17_SingleRoot ==
    (Built /\ Dangling(operations) = {}) =>
        /\ Cardinality(RootsOf(operations)) >= 2
              => /\ sort(GraphOf(operations)) = Err("UnconnectedNode", 0)
                 /\ UniformSingleCreate(operations) => Res = Err("UnconnectedNode", 0)
        /\ (UniformSingleCreate(operations) /\ EmptyPrevious(operations) # {})
              => Res = Err("UnconnectedNode", 0)

\* A build of a CREATE, an UPDATE that names it and a DELETE with an empty
\* previous_operations list, rejected with UnconnectedNode.
C17_Witness ==
    /\ Built /\ UniformSingleCreate(operations) /\ Dangling(operations) = {}
    /\ Len(operations) = 3
    /\ \E i \in EmptyPrevious(operations) : operations[i].action = "delete"
    /\ \E i \in 1..3 : operations[i].action = "update" /\ EdgesOf(operations) # {}
    /\ ~HasCycle(EdgesOf(operations))
    /\ Res = Err("UnconnectedNode", 0)

(***************************************************************************)
(* Validation of an Operation.                                             *)
(***************************************************************************)
\* validate() was called on the operation at hand and result is its outcome.
Checked == Len(operations) = 1 /\ IsSome(result) /\ "operation" \notin DOMAIN Res
\* The last constructor call returned the operation at hand.
Returned == Len(operations) = 1 /\ IsSome(result) /\ "operation" \in DOMAIN Res
TheOp == operations[1]

\* The operation's fields are absent or empty.
NoFields(op) == op.fields = <<>> \/ DOMAIN op.fields[1] = {}

\* C18: validation of fields.  validate() rejects with EmptyFields every
\* CREATE or UPDATE whose fields are absent or empty, and no constructor
\* returns a CREATE or UPDATE with absent or empty fields.
C18_EmptyFieldsRejected ==
    /\ (Checked /\ TheOp.action \in {"create", "update"} /\ NoFields(TheOp))
          => Res = OperationError("EmptyFields")
    /\ Returned => (/\ Res.operation = TheOp
                    /\ TheOp.action \in {"create", "update"} => ~NoFields(TheOp))

\* validate() refused an UPDATE that has previous_operations and an id and
\* whose fields are present but empty.
C18_Witness ==
    /\ Checked
    /\ TheOp.action = "update"
    /\ TheOp.fields = <<<<>>>>
    /\ Len(TheOp.previous_operations) = 1 /\ Len(TheOp.previous_operations[1]) > 0
    /\ TheOp.id # <<>>
    /\ Res = OperationError("EmptyFields")

\* C19 as stated: validate() rejects every UPDATE or DELETE without
\* previous_operations with EmptyPreviousOperations and every CREATE that has
\* previous_operations with ExistingPreviousOperations.
C19_PreviousOperationsPresence ==
    Checked =>
        /\ (TheOp.action \in {"update", "delete"} /\ TheOp.previous_operations = <<>>)
              => Res = OperationError("EmptyPreviousOperations")
        /\ (TheOp.action = "create" /\ TheOp.previous_operations # <<>>)
              => Res = OperationError("ExistingPreviousOperations")

\* C19 as amended: validate() rejects every operation without
\* previous_operations that is a DELETE or an UPDATE with fields that are not
\* empty with EmptyPreviousOperations, and every CREATE that has
\* previous_operations and fields that are not empty with
\* ExistingPreviousOperations; an UPDATE or CREATE with absent or empty
\* fields is rejected with EmptyFields.
C19_PreviousOperationsAfterFields ==
    Checked =>
        /\ (/\ TheOp.action \in {"update", "delete"}
            /\ TheOp.previous_operations = <<>>
            /\ (TheOp.action = "delete" \/ ~NoFields(TheOp)))
              => Res = OperationError("EmptyPreviousOperations")
        /\ (TheOp.action = "create" /\ TheOp.previous_operations # <<>> /\ ~NoFields(TheOp))
              => Res = OperationError("ExistingPreviousOperations")
        /\ (/\ TheOp.action \in {"update", "create"}
            /\ (TheOp.previous_operations = <<>>) = (TheOp.action = "update")
            /\ NoFields(TheOp))
              => Res = OperationError("EmptyFields")

\* validate() refused with EmptyPreviousOperations a DELETE that has an id,
\* no fields and no previous_operations.
C19_Witness ==
    /\ Checked
    /\ TheOp.action = "delete"
    /\ TheOp.previous_operations = <<>>
    /\ TheOp.fields = <<>>
    /\ TheOp.id # <<>>
    /\ Res = OperationError("EmptyPreviousOperations")

\* C20: a DELETE must not contain fields.  validate() returns an error for
\* every DELETE that carries fields, one with previous_operations and an id
\* included.
C20_DeleteWithFieldsRejected ==
    (Checked /\ TheOp.action = "delete" /\ TheOp.fields # <<>>) => ~Res.ok

\* C21: previous_operations is not empty.  No UPDATE or DELETE with an empty
\* previous_operations list passes validate(), and none is returned by
\* new_update or new_delete.
C21_PreviousOperationsNotEmpty ==
    /\ (Checked /\ TheOp.action \in {"update", "delete"}
                /\ TheOp.previous_operations = <<<<>>>>) => ~Res.ok
    /\ Returned => ~(/\ TheOp.action \in {"update", "delete"}
                     /\ TheOp.previous_operations = <<<<>>>>)

\* C22: presence of the document id.  Every operation validate() accepts has
\* no id when it is a CREATE and has an id when it is an UPDATE or a DELETE.
C22_IdPresence ==
    (Checked /\ Res.ok) =>
        /\ TheOp.action = "create" => TheOp.id = <<>>
        /\ TheOp.action \in {"update", "delete"} => TheOp.id # <<>>

(***************************************************************************)
(* OperationFields.                                                        *)
(***************************************************************************)
Present(fields, name) == \E i \in 1..Len(fields) : fields[i].key = name
ValueOf(fields, name) ==
    LET S == {fields[i].value : i \in {j \in 1..Len(fields) : fields[j].key = name}}
    IN  IF S = {} THEN <<>> ELSE <<CHOOSE v \in S : TRUE>>

\* C23: error contracts of OperationFields.  add(name, v) fails with
\* FieldDuplicate when name is present, update(name, v) and remove(name) fail
\* with UnknownField when name is absent, and they fail in no other case; a
\* failing call leaves the contents as they were, a succeeding call changes
\* the entry of name only: add and update leave v under name, remove leaves
\* nothing under it.
C23_FieldsErrorContracts ==
    [][LET c == call'[1]
           r == result'[1]
           was == Present(operation_fields, c.name)
       IN  /\ c.method = "add"
                => r = IF was THEN [ok |-> FALSE, error |-> "FieldDuplicate"]
                       ELSE [ok |-> TRUE]
           /\ c.method \in {"update", "remove"}
                => r = IF was THEN [ok |-> TRUE]
                       ELSE [ok |-> FALSE, error |-> "UnknownField"]
           /\ ~r.ok => operation_fields' = operation_fields
           /\ r.ok => /\ \A n \in FieldNames \ {c.name} :
                            ValueOf(operation_fields', n) = ValueOf(operation_fields, n)
                      /\ ValueOf(operation_fields', c.name) = c.value
                      /\ Len(operation_fields') =
                            Cardinality({n \in FieldNames : Present(operation_fields', n)})
      ]_vars

\* add failed with FieldDuplicate on a container of two fields, after a
\* call that succeeded.
C23_Witness ==
    /\ call # <<>> /\ call[1].method = "add"
    /\ result = <<[ok |-> FALSE, error |-> "FieldDuplicate"]>>
    /\ Len(operation_fields) = 2
    /\ ValueOf(operation_fields, call[1].name) # call[1].value

\* C24: invariant of OperationFields.  After any sequence of add, update and
\* remove calls no key occurs twice, keys() and iter() list the fields in
\* ascending key order, len() is the number of keys, and get(name) is the
\* value last written with success under a present name and nothing for an
\* absent one.
C24_FieldsInvariant ==
    call # <<>> =>
        LET ks == fields_keys(operation_fields)
            it == fields_iter(operation_fields)
        IN  /\ \A i, j \in 1..Len(ks) : i < j => KeyRank(ks[i]) < KeyRank(ks[j])
            /\ Len(it) = Len(ks)
            /\ \A i \in 1..Len(it) : it[i].key = ks[i]
            /\ fields_len(operation_fields) = Cardinality({ks[i] : i \in 1..Len(ks)})
            /\ fields_len(operation_fields)
                  = Cardinality({n \in FieldNames : written[n] # <<>>})
            /\ \A n \in FieldNames : fields_get(operation_fields, n) = written[n]
            /\ \A i \in 1..Len(it) : <<it[i].value>> = written[it[i].key]

\* A container of two fields whose first key was added last and then
\* updated to another value.
C24_Witness ==
    /\ call # <<>> /\ call[1].method = "update" /\ result = <<[ok |-> TRUE]>>
    /\ Len(operation_fields) = 2
    /\ call[1].name = operation_fields[1].key
    /\ operation_fields[1].value # operation_fields[2].value

\* The CREATE operation carrying the given fields.
CreateOf(fields) == new_create(DocSchema, fields).operation

\* C25: canonical encoding.  Whatever the order in which the pairs of the
\* container at hand are added to a new container, the new container equals
\* the one at hand, and the CREATE operations made from the two have the same
\* encoding.
C25_CanonicalEncoding ==
    (call # <<>> /\ Len(operation_fields) > 0) =>
        \A entries \in Orderings(fields_iter(operation_fields)) :
            LET other == AddAll(OperationFieldsNew, entries, 1)
            IN  /\ other = operation_fields
                /\ to_cbor(CreateOf(other)) = to_cbor(CreateOf(operation_fields))

\* The key that iterates first was added last: the container at hand was
\* filled in descending key order, and the encoding lists it ascending.
C25_Witness ==
    /\ call # <<>> /\ call[1].method = "add" /\ result = <<[ok |-> TRUE]>>
    /\ Len(operation_fields) = 2
    /\ call[1].name = operation_fields[1].key
    /\ Lookup(to_cbor(CreateOf(operation_fields)), "fields")[1].key = call[1].name

\* The keys of the entries of an encoding.
KeysOf(bytes) == {bytes[i].key : i \in 1..Len(bytes)}

\* C26: codec round-trip.  The operation read back from the encoding of an
\* operation is that operation, whatever its action, its optional fields
\* and the variants of its values; the encoding has an entry for action,
\* schema and version and for each optional field that is present, and none
\* for an absent one.
C26_CodecRoundTrip ==
    (Len(operations) = 1 /\ encoded # <<>>) =>
        /\ encoded[1].bytes = to_cbor(TheOp)
        /\ encoded[1].restored = TheOp
        /\ KeysOf(encoded[1].bytes) =
              {"action", "schema", "version"}
              \cup (IF TheOp.previous_operations # <<>> THEN {"previousOperations"} ELSE {})
              \cup (IF TheOp.id # <<>> THEN {"id"} ELSE {})
              \cup (IF TheOp.fields # <<>> THEN {"fields"} ELSE {})
        /\ Len(encoded[1].bytes) = Cardinality(KeysOf(encoded[1].bytes))

\* A CREATE that new_create returned, with two fields of different variants
\* and neither previous_operations nor id, was encoded and read back.
C26_Witness ==
    /\ Returned /\ encoded # <<>>
    /\ TheOp.action = "create"
    /\ Len(encoded[1].bytes) = 4
    /\ Len(TheOp.fields[1]) = 2
    /\ TheOp.fields[1][1].value.type # TheOp.fields[1][2].value.type
    /\ encoded[1].restored = TheOp

\* The add_link calls of resolve_view: <<previous, operation_id>> for every
\* hash an operation names.
LinkCalls(ops) ==
    UNION {{<<p, ops[i].operation_id>> : p \in PrevOf(ops[i])} : i \in 1..Len(ops)}

\* The graph after the add_node loop of resolve_view.
NodesOf(ops) == AddNodes(GraphNew, ops, 1)

\* C27: add_link and the builder.  On the graph holding the operations as
\* nodes, add_link(from, to) returns true and adds exactly the edge when both
\* keys are nodes, and returns false, leaving the graph as it was, when one is
\* missing; with a single CREATE and a uniform schema build fails with
\* InvalidOperationLink exactly when one of its add_link calls returns false,
\* and the id it carries is that of an operation whose call returned false.
C27_AddLinkContract ==
    (Built /\ UniformSingleCreate(operations)) =>
        LET nodes == NodesOf(operations)
            Failed == {c \in LinkCalls(operations) : ~add_link(nodes, c[1], c[2]).success}
            Rejected == ~Res.ok /\ Res.error.kind = "InvalidOperationLink"
        IN  /\ \A c \in LinkCalls(operations) :
                  LET r == add_link(nodes, c[1], c[2])
                  IN  /\ r.success = (c[1] \in IdsOf(operations) /\ c[2] \in IdsOf(operations))
                      /\ r.success =>
                            /\ r.graph.links = nodes.links \cup {c}
                            /\ r.graph.nodes = nodes.nodes
                      /\ ~r.success => r.graph = nodes
            /\ Rejected <=> Failed # {}
            /\ Rejected => \E c \in Failed : c[2] = Res.error.id

\* A rejected build in which the add_link calls of another operation all
\* returned true.
C27_Witness ==
    /\ Built /\ UniformSingleCreate(operations)
    /\ ~Res.ok
    /\ Res.error.kind = "InvalidOperationLink"
    /\ \E i \in 1..Len(operations) :
          /\ operations[i].operation_id # Res.error.id
          /\ PrevOf(operations[i]) # {}
          /\ \A p \in PrevOf(operations[i]) :
                add_link(NodesOf(operations), p, operations[i].operation_id).success

\* The pairs <<i, j>> of positions of the input holding two UPDATEs that name
\* the same single parent and that no operation names, the id at i smaller.
ConcurrentPairs(ops) ==
    {pair \in (1..Len(ops)) \X (1..Len(ops)) :
        LET u1 == ops[pair[1]]
            u2 == ops[pair[2]]
        IN  /\ is_update(u1) /\ is_update(u2)
            /\ u1.operation_id < u2.operation_id
            /\ u1.previous_operations # <<>>
            /\ Len(u1.previous_operations[1]) = 1
            /\ u2.previous_operations = u1.previous_operations
            /\ u1.operation_id \notin Referenced(ops)
            /\ u2.operation_id \notin Referenced(ops)}

\* Whether the operation's fields mention f.
Writes(op, f) == op.fields # <<>> /\ f \in DOMAIN op.fields[1]

\* The position of the operation with the given id among the sorted ones.
PositionOf(sorted, id) == CHOOSE i \in 1..Len(sorted) : sorted[i].operation_id = id

\* Whether an operation other than the two concurrent UPDATEs, placed after
\* the one with the given id, writes f.
WrittenAfter(sorted, id, f, u1, u2) ==
    \E k \in Writers(sorted, f) :
        /\ k > PositionOf(sorted, id)
        /\ sorted[k].operation_id \notin {u1.operation_id, u2.operation_id}

\* C29 as stated: of two concurrent UPDATEs on the same single parent the one
\* with the larger id decides every field both write, and a field only one of
\* them writes has that one's value, whatever else the document holds.
C29_ConcurrentBranch ==
    (Built /\ Res.ok) =>
        \A pair \in ConcurrentPairs(operations) : \A f \in FieldNames :
            LET u1 == operations[pair[1]]
                u2 == operations[pair[2]]
            IN  /\ (Writes(u1, f) /\ Writes(u2, f)) => Doc.view[f] = u2.fields[1][f]
                /\ (Writes(u1, f) /\ ~Writes(u2, f)) => Doc.view[f] = u1.fields[1][f]
                /\ (~Writes(u1, f) /\ Writes(u2, f)) => Doc.view[f] = u2.fields[1][f]

\* C29, amended: the same, for the fields that no third operation placed
\* after the deciding UPDATE in Document.operations writes.
C29_ConcurrentBranchUnlessWrittenAfter ==
    (Built /\ Res.ok) =>
        \A pair \in ConcurrentPairs(operations) : \A f \in FieldNames :
            LET u1 == operations[pair[1]]
                u2 == operations[pair[2]]
                sorted == Doc.meta.operations
            IN  /\ (Writes(u1, f) /\ Writes(u2, f)
                      /\ ~WrittenAfter(sorted, u2.operation_id, f, u1, u2))
                       => Doc.view[f] = u2.fields[1][f]
                /\ (Writes(u1, f) /\ ~Writes(u2, f)
                      /\ ~WrittenAfter(sorted, u1.operation_id, f, u1, u2))
                       => Doc.view[f] = u1.fields[1][f]
                /\ (~Writes(u1, f) /\ Writes(u2, f)
                      /\ ~WrittenAfter(sorted, u2.operation_id, f, u1, u2))
                       => Doc.view[f] = u2.fields[1][f]

\* A document with two concurrent UPDATEs and a further operation, where the
\* UPDATE with the larger id decided a field both wrote and the other UPDATE
\* alone wrote another field, which the view holds.
C29_Witness ==
    /\ Built /\ Res.ok
    /\ Len(operations) > 3
    /\ \E pair \in ConcurrentPairs(operations) : \E f, h \in FieldNames :
          LET u1 == operations[pair[1]]
              u2 == operations[pair[2]]
          IN  /\ Writes(u1, f) /\ Writes(u2, f)
              /\ Writes(u1, h) /\ ~Writes(u2, h)
              /\ Doc.view[f] = u2.fields[1][f]
              /\ Doc.view[h] = u1.fields[1][h]
              /\ Doc.view[f] # Doc.view[h]

\* The keys of add_operation_field calls so far, in ascending order.
AddedKeys == SelectSeq(KeyOrder, LAMBDA k : k \in DOMAIN written /\ written[k] # <<>>)

\* The name an operation value of the type carries in its "type" entry.
FtypeOf(field_type) ==
    CASE field_type = "Bool" -> "bool"
      [] field_type = "Int" -> "int"
      [] field_type = "Float" -> "float"
      [] field_type = "Tstr" -> "str"
      [] field_type = "Relation" -> "relation"

\* key: { ( type: "ftype", value: cddl-type ) }
FieldDefinition(key, field_type) ==
    key \o ": { ( type: \"" \o FtypeOf(field_type) \o "\", value: "
        \o type_to_string(field_type) \o " ) }"

\* The definitions of keys[i..], ", " before every one except the first.
RECURSIVE FieldDefinitions(_, _)
FieldDefinitions(keys, i) ==
    IF i > Len(keys) THEN ""
    ELSE (IF i = 1 THEN "" ELSE ", ")
         \o FieldDefinition(keys[i], written[keys[i]][1])
         \o FieldDefinitions(keys, i + 1)

\* C30: schema emission.  to_string gives name = { definitions }, the
\* definitions being those of the keys added so far in ascending key order,
\* whatever the order of the calls, each of the form
\* key: { ( type: "ftype", value: cddl-type ) }; n >= 1 definitions are
\* separated by n - 1 pieces ", ", none before the first or after the last.
C30_SchemaEmission ==
    (cddl # <<>> /\ result # <<>>) =>
        LET pieces == result[1].pieces
            n == Len(AddedKeys)
            Separators == {i \in 1..Len(pieces) : pieces[i] = ", "}
        IN  /\ result[1].text
                  = cddl[1].name \o " = { " \o FieldDefinitions(AddedKeys, 1) \o " }"
            /\ n >= 1 =>
                  /\ Cardinality(Separators) = n - 1
                  /\ Len(pieces) = 2 * n + 1
                  /\ \A i \in 1..n :
                        pieces[2 * i] = FieldDefinition(AddedKeys[i], written[AddedKeys[i]][1])
                  /\ \A i \in Separators : i > 2 /\ i < Len(pieces) - 1
            /\ n = 0 => Separators = {}

\* The generator of the module's test: person, name added before age, emits
\* the string the test expects.
C30_Witness ==
    /\ cddl # <<>> /\ result # <<>>
    /\ call # <<>> /\ call[1].name = "age"
    /\ Len(AddedKeys) = 2
    /\ result[1].text
          = "person = { age: { ( type: \"int\", value: int ) }, name: { ( type: \"str\", value: tstr ) } }"

\* The keys of S ordered by rank, ties broken by key: the smallest key of
\* the smallest rank first.
RECURSIVE RankOrder(_, _)
RankOrder(g, S) ==
    IF S = {} THEN <<>>
    ELSE LET k == CHOOSE m \in S : \A j \in S :
                      \/ Rank(g, m) < Rank(g, j)
                      \/ (Rank(g, m) = Rank(g, j) /\ m <= j)
         IN  <<k>> \o RankOrder(g, S \ {k})

\* Whether no key of the sequence has a smaller rank than one before it.
RanksAscend(g, seq) ==
    \A i, j \in 1..Len(seq) : i < j => Rank(g, seq[i]) <= Rank(g, seq[j])

\* C31 as stated: on every acyclic single-root graph the sort gives the
\* sequence of the nodes ordered by rank, ties broken by key.
C31_RankOrderIsSort ==
    (Sorted /\ DOMAIN graph.nodes # {}) =>
        SortedKeysOf = RankOrder(graph, DOMAIN graph.nodes)

\* C31, amended: the sort gives the rank order exactly when it emits no
\* node of a smaller rank after one of a larger rank.
C31_RankOrderIffRanksAscend ==
    (Sorted /\ DOMAIN graph.nodes # {}) =>
        (SortedKeysOf = RankOrder(graph, DOMAIN graph.nodes)
            <=> RanksAscend(graph, SortedKeysOf))

\* A sorted graph with two nodes of the same rank below the root and a node
\* of the next rank, on which the sort and the rank order agree.
C31_Witness ==
    /\ Sorted
    /\ Cardinality(DOMAIN graph.nodes) >= 4
    /\ SortedKeysOf = RankOrder(graph, DOMAIN graph.nodes)
    /\ \E i, j, k \in DOMAIN graph.nodes :
          /\ i # j /\ Rank(graph, i) = 1 /\ Rank(graph, j) = 1
          /\ Rank(graph, k) = 2

\* The ids of the tips of a document.
TipIds(document) ==
    {document.meta.current_graph_tips[i] : i \in 1..Len(document.meta.current_graph_tips)}

\* The positions of the UPDATE and DELETE operations of ops that were
\* published on the rest of ops: build succeeds on the rest, the operation
\* has the rest's schema and names exactly the rest's tips.
PublishedOnTips(ops) ==
    {i \in 1..Len(ops) :
        /\ is_update(ops[i]) \/ is_delete(ops[i])
        /\ build(Without(ops, i)).ok
        /\ ops[i].schema = build(Without(ops, i)).document.schema
        /\ PrevOf(ops[i]) = TipIds(build(Without(ops, i)).document)}

\* C32: merge closes the frontier.  When an UPDATE or DELETE of the
\* document's schema names exactly the tips of the document built from the
\* other operations, build succeeds and the only tip is that operation.
C32_MergeClosesFrontier ==
    Built =>
        \A i \in PublishedOnTips(operations) :
            /\ Res.ok
            /\ Doc.meta.current_graph_tips = <<operations[i].operation_id>>

\* An UPDATE that merged two tips, its id not the largest of the document.
C32_Witness ==
    /\ Built /\ Res.ok
    /\ \E i \in PublishedOnTips(operations) :
          /\ is_update(operations[i])
          /\ Cardinality(PrevOf(operations[i])) = 2
          /\ i < Len(operations)
          /\ Doc.meta.current_graph_tips = <<operations[i].operation_id>>

\* C33: order of the tips.  On success current_graph_tips is in ascending
\* order of operation id, and is the same list for every ordering of the
\* input.
C33_TipsAscending ==
    (Built /\ Res.ok) =>
        LET tips == Doc.meta.current_graph_tips
        IN  /\ \A i, j \in 1..Len(tips) : i < j => tips[i] < tips[j]
            /\ \A p \in Orderings(operations) :
                  build(p).ok /\ build(p).document.meta.current_graph_tips = tips

\* A document with three tips, the operation with the largest id given
\* first in some ordering of the input that builds the same tips.
C33_Witness ==
    /\ Built /\ Res.ok
    /\ Len(Doc.meta.current_graph_tips) = 3
    /\ \E p \in Orderings(operations) :
          /\ p[1].operation_id = Doc.meta.current_graph_tips[3]
          /\ build(p).document.meta.current_graph_tips = Doc.meta.current_graph_tips

\* C34: add_node inserts or replaces.  After any sequence of add_node calls
\* the nodes of the graph are the keys passed so far, each once and with the
\* payload of the last call for it; the call just made, made once more,
\* leaves the graph as it is.
C34_AddNodeInsertsOrReplaces ==
    call # <<>> =>
        /\ DOMAIN graph.nodes = {k \in Keys : written[k] # <<>>}
        /\ \A k \in DOMAIN graph.nodes : <<graph.nodes[k]>> = written[k]
        /\ graph.links = {}
        /\ add_node(graph, call[1].name, call[1].value[1]) = graph

\* A graph of three nodes after an add_node call whose payload differs from
\* the one the other two nodes hold.
C34_Witness ==
    /\ call # <<>> /\ call[1].method = "add_node"
    /\ Cardinality(DOMAIN graph.nodes) = 3
    /\ graph.nodes[call[1].name] = "second"
    /\ \A k \in DOMAIN graph.nodes \ {call[1].name} : graph.nodes[k] = "first"

\* Whether two operations of ops have different schemas.
SchemasDiffer(ops) == \E i, j \in 1..Len(ops) : ops[i].schema # ops[j].schema

\* The kind of the error build returned, "" on success.
ErrorKind == IF Res.ok THEN "" ELSE Res.error.kind

\* C35: error precedence.  build counts the CREATE operations, then compares
\* the schemas, then links, then sorts: without a CREATE the error is
\* NoCreateOperation, with several MoreThanOneCreateOperation, whatever the
\* schemas and links; with one CREATE and differing schemas it is
\* OperationSchemaNotMatching, whatever the links; with one CREATE, one schema
\* and a hash that is no operation of the input it is InvalidOperationLink,
\* whether or not the graph has a cycle or a second root; only then the
\* errors of the sort are returned.
C35_ErrorPrecedence ==
    Built =>
        LET creates == Cardinality(Creates(operations))
        IN  /\ creates = 0 => ErrorKind = "NoCreateOperation"
            /\ creates > 1 => ErrorKind = "MoreThanOneCreateOperation"
            /\ (creates = 1 /\ SchemasDiffer(operations))
                   => ErrorKind = "OperationSchemaNotMatching"
            /\ (creates = 1 /\ ~SchemasDiffer(operations) /\ Dangling(operations) # {})
                   => ErrorKind = "InvalidOperationLink"
            /\ ErrorKind \in {"CycleDetected", "UnconnectedNode"}
                   => (creates = 1 /\ ~SchemasDiffer(operations) /\ Dangling(operations) = {})

\* An input with one CREATE and one schema whose graph has a cycle and in
\* which an operation names a missing hash: InvalidOperationLink is returned.
C35_Witness ==
    /\ Built
    /\ Cardinality(Creates(operations)) = 1 /\ ~SchemasDiffer(operations)
    /\ HasCycle(EdgesOf(operations))
    /\ Dangling(operations) # {}
    /\ ErrorKind = "InvalidOperationLink"

\* The positions of the UPDATEs of the sorted operations that come after a
\* DELETE.
UpdatesAfterDelete(sorted) ==
    {u \in 1..Len(sorted) :
        /\ is_update(sorted[u])
        /\ \E d \in 1..(u - 1) : is_delete(sorted[d])}

\* Whether an UPDATE of ops names a DELETE of ops in previous_operations.
UpdateNamesDelete(ops) ==
    \E u, d \in 1..Len(ops) :
        /\ is_update(ops[u]) /\ is_delete(ops[d])
        /\ ops[d].operation_id \in PrevOf(ops[u])

\* Whether the operations form a graph the sort accepts: every hash named is
\* an operation, there is no cycle and one root.
WellLinked(ops) ==
    /\ Dangling(ops) = {}
    /\ ~HasCycle(EdgesOf(ops))
    /\ Cardinality(RootsOf(ops)) = 1

\* C36: operations after a DELETE.  An UPDATE naming a DELETE does not make
\* build fail; on success every UPDATE sorted after a DELETE is overlaid on
\* the view (each of its fields that no later operation writes has its
\* value) and the document is deleted.
C36_AppliedAfterDelete ==
    Built =>
        /\ (UniformSingleCreate(operations) /\ WellLinked(operations)
               /\ UpdateNamesDelete(operations)) => Res.ok
        /\ Res.ok =>
              \A u \in UpdatesAfterDelete(Doc.meta.operations) :
                  LET sorted == Doc.meta.operations
                  IN  /\ Doc.meta.deleted
                      /\ \A f \in FieldNames :
                            (Writes(sorted[u], f) /\ Max(Writers(sorted, f)) = u)
                                => (f \in DOMAIN Doc.view
                                    /\ Doc.view[f] = sorted[u].fields[1][f])

\* A deleted document whose last sorted operation is an UPDATE that names the
\* DELETE and whose value the view holds.
C36_Witness ==
    /\ Built /\ Res.ok /\ Doc.meta.deleted
    /\ UpdateNamesDelete(operations)
    /\ LET sorted == Doc.meta.operations
           last == sorted[Len(sorted)]
       IN  /\ Len(sorted) \in UpdatesAfterDelete(sorted)
           /\ \E d \in 1..Len(sorted) :
                 is_delete(sorted[d]) /\ sorted[d].operation_id \in PrevOf(last)
           /\ \E f \in FieldNames :
                 Writes(last, f) /\ Doc.view[f] = last.fields[1][f]

\* The positions of the operations of ops that can have been added to the
\* rest of ops: build succeeds on the rest, and the operation has the rest's
\* schema and names one or more operations, all of them of the rest.
AddedToRest(ops) ==
    {i \in 1..Len(ops) :
        /\ build(Without(ops, i)).ok
        /\ ops[i].schema = build(Without(ops, i)).document.schema
        /\ PrevOf(ops[i]) # {}
        /\ PrevOf(ops[i]) \subseteq IdsOf(Without(ops, i))}

\* C37: order stability under growth.  When build succeeds on the input
\* without one of its operations and that operation has the same schema and
\* names only operations of the rest, build succeeds on the whole input, and
\* Document.operations without that operation is the Document.operations of
\* the rest.
C37_OrderStability ==
    Built =>
        \A i \in AddedToRest(operations) :
            /\ Res.ok
            /\ LET sorted == Doc.meta.operations
               IN  Without(sorted, PositionOf(sorted, operations[i].operation_id))
                      = build(Without(operations, i)).document.meta.operations

\* A document of four operations in which the added operation has the
\* smallest id and is sorted between operations of the rest.
C37_Witness ==
    /\ Built /\ Res.ok /\ Len(operations) = 4
    /\ 1 \in AddedToRest(operations)
    /\ LET pos == PositionOf(Doc.meta.operations, operations[1].operation_id)
       IN  pos > 1 /\ pos < 4

\* The links of a graph form a cycle: the source of a link is reached from
\* its target.
GraphHasCycle(g) == HasCycle(g.links)

\* sort has returned.
SortReturned == call = <<>> /\ sorted_graph # <<>>

\* What sort returned: for a graph with at most one root and no cycle every
\* node once, links respected; for a graph with several roots or a cycle an
\* error; and what the loop in one piece returns.
SortOutcome ==
    LET r == sorted_graph[1]
    IN  /\ r = sort(graph)
        /\ (Cardinality(Roots(graph)) = 1 /\ ~GraphHasCycle(graph)) =>
              /\ r.ok
              /\ Len(r.sorted) = Cardinality(DOMAIN graph.nodes)
              /\ Range(r.sorted) = DOMAIN graph.nodes
              /\ \A l \in graph.links : Pos(r.sorted, l[1]) < Pos(r.sorted, l[2])
        /\ Cardinality(Roots(graph)) > 1 =>
              (~r.ok /\ r.error.kind = "UnconnectedNode")
        /\ (Cardinality(Roots(graph)) <= 1 /\ GraphHasCycle(graph)) =>
              (~r.ok /\ r.error.kind = "CycleDetected")

\* C38: termination of the sort.  On every graph sort returns in the end;
\* while it runs it has emitted no node twice and no more nodes than the
\* graph has; and it returns every node in an order respecting the links for
\* an acyclic single-root graph, an error for a graph with a cycle or
\* several roots.
C38_SortTerminates ==
    /\ <>SortReturned
    /\ [](call # <<>> =>
             /\ Len(call[1].emitted) <= Cardinality(DOMAIN graph.nodes)
             /\ Cardinality(Range(call[1].emitted)) = Len(call[1].emitted))
    /\ [](SortReturned => SortOutcome)

\* sort returned the four nodes of a graph with two branches.
C38_Witness ==
    /\ SortReturned
    /\ sorted_graph[1].ok
    /\ Len(sorted_graph[1].sorted) = 4
    /\ Len(sorted_graph[1].current_graph_tips) = 2

\* The operations of ops at the positions of I, in their order.
SubInput(ops, I) == SelectSeq(ops, LAMBDA op : \E i \in I : ops[i] = op)

\* C39: the flags never decrease as a document grows.  When build succeeds
\* on the input and on a part of it, a deleted part makes the document
\* deleted and an edited part makes it edited.
C39_FlagsMonotone ==
    (Built /\ Res.ok) =>
        \A I \in SUBSET (1..Len(operations)) :
            LET part == build(SubInput(operations, I))
            IN  part.ok =>
                   /\ part.document.meta.deleted => Doc.meta.deleted
                   /\ part.document.meta.edited => Doc.meta.edited

\* A deleted and edited document of four operations, a part of which of two
\* operations is built, deleted and edited too, the DELETE not being the last
\* operation of the input.
C39_Witness ==
    /\ Built /\ Res.ok /\ Len(operations) = 4
    /\ Doc.meta.deleted /\ Doc.meta.edited
    /\ ~is_delete(operations[4])
    /\ \E I \in SUBSET (1..Len(operations)) :
          LET part == build(SubInput(operations, I))
          IN  /\ Cardinality(I) = 2
              /\ part.ok
              /\ part.document.meta.deleted /\ part.document.meta.edited

\* The positions of the pieces of the emitted string that define key.
DefinitionsOf(pieces, key) ==
    {i \in 1..Len(pieces) : \E t \in Types : pieces[i] = FieldDefinition(key, t)}

\* C40: add_operation_field is last-wins per key.  The emitted string has
\* one definition for each key passed so far, with the type of the last call
\* for that key, none for any other key, and as many definitions as the
\* generator has fields.
C40_LastWinsPerKey ==
    (cddl # <<>> /\ result # <<>>) =>
        LET pieces == result[1].pieces
        IN  /\ \A key \in CddlKeys :
                  IF written[key] = <<>> THEN DefinitionsOf(pieces, key) = {}
                  ELSE /\ Cardinality(DefinitionsOf(pieces, key)) = 1
                       /\ \A i \in DefinitionsOf(pieces, key) :
                             pieces[i] = FieldDefinition(key, written[key][1])
            /\ Cardinality(UNION {DefinitionsOf(pieces, key) : key \in CddlKeys})
                  = Cardinality({key \in CddlKeys : written[key] # <<>>})
            /\ Len(cddl[1].fields) = Cardinality({key \in CddlKeys : written[key] # <<>>})

\* The string emitted after a call that replaced the definition of a key,
\* the generator holding another key as well.
C40_Witness ==
    /\ cddl # <<>> /\ result # <<>>
    /\ call # <<>> /\ call[1].replaced
    /\ Len(cddl[1].fields) = 2
    /\ \E i \in 1..Len(result[1].pieces) :
          result[1].pieces[i] = FieldDefinition(call[1].name, call[1].value[1])

====
